---- MODULE Spec2Model ----
(***************************************************************************)
(* Storage and consistency engine of simple-json-db (sjd): the collection  *)
(* store (src/sjd/database/_collection.py), its change trackers            *)
(* (_entity_tracker.py), the relationship manager and the snapshot scans.  *)
(*                                                                         *)
(* Tasks are asyncio coroutines: they interleave only at suspension points *)
(* (aiofiles I/O, a contended lock).  Each task owns a call stack of       *)
(* frames; a frame is one running save_changes_async (kind "commit") or    *)
(* one running queryable scan (kind "scan").                               *)
(***************************************************************************)
EXTENDS Integers, Sequences, FiniteSets, TLC

\* ---------------------------------------------------------------- bounds
MaxTasks == 2
MaxAdds == 2
MaxKids == 1
MaxDeletes == 1
MaxMutates == 1
MaxAttach == 1
MaxCommits == 2
MaxScans == 1
MaxSeqScans == 2
MaxCounts == 2
MaxDrops == 1
MaxReplaces == 2
MaxCalls == 3
MaxVal == 2
MaxOps == 6
MaxConcOps == 5

Tasks == 1..MaxTasks
Vals == 1..MaxVal
Cols == {"A", "B"}

\* None (a key that is no key, a reference that is null, a lock nobody holds)
None == 0
\* A file on disk: whether it exists, and its lines in order.
Missing == [there |-> FALSE, lines |-> <<>>]
Empty == [there |-> TRUE, lines |-> <<>>]

\* A _CollectionQueryableContext: whether its snapshot file has been copied
\* (_initialized), opened (_file), closed (_closed) and removed.
NoCtx == [col |-> "none", copied |-> FALSE, opened |-> FALSE, closed |-> FALSE,
          removed |-> FALSE]

\* No value is being encoded or decoded.
NoCodec == [phase |-> "idle"]

VARIABLES
    schema,    \* the declared entity types: virtual fields, cascade configuration
    heap,      \* the slave entity objects:  [type, val, ref, kids, tid]
    masters,   \* the master entities:       [id, slave]
    trackers,  \* per collection, _entity_trackers in insertion order
    file,      \* per collection, the live file
    tmpf,      \* per collection, the commit's rewrite file __<name>_None__
    lock,      \* per collection, the task holding _main_file_lock, or None
    nextKey,   \* the next key uuid4 hands out
    stack,     \* per task, its call stack of frames (top is the last)
    done,      \* per task, the outcome of its last finished top-level operation
    alive,     \* FALSE once the process has been killed
    crash,     \* per collection, the commit the kill interrupted, if any
    running,   \* the task inside a synchronous section (no await), or None
    ops,       \* how many operations the callers have issued so far
    temps,     \* per collection, how many snapshot temp files are on disk
    closing,   \* per collection, the abandoned scans the event loop has yet to close
    mainCtx,   \* per collection, which context is _main_iter_ctx, or None
    ctxs,      \* the contexts that "async with collection" has made, in order
    codec      \* a value on its way through serialize and deserialize

vars == <<schema, heap, masters, trackers, file, tmpf, lock, nextKey, stack,
          done, alive, crash, running, ops, temps, closing, mainCtx, ctxs,
          codec>>

\* ---------------------------------------------------------------- schema
NoVirt == [shape |-> "none", target |-> "none"]
ListOf(c) == [shape |-> "list", target |-> c]
SingleOf(c) == [shape |-> "single", target |-> c]

\* The entity types the model is run with: for each collection its virtual
\* field (VirtualListProperty / VirtualComplexProperty) and the delete action
\* configured for it.
Schemas ==
    { [virt |-> [c \in Cols |-> IF c = "A" THEN ListOf("B") ELSE NoVirt], action |-> a,
       refprop |-> TRUE]
        : a \in {"delete_entity", "delete_reference"} }
    \cup
    { [virt |-> [c \in Cols |-> IF c = "A" THEN SingleOf("B") ELSE NoVirt],
       action |-> "delete_entity", refprop |-> TRUE],
      [virt |-> [c \in Cols |-> IF c = "A" THEN ListOf("B") ELSE ListOf("A")],
       action |-> "ignore", refprop |-> TRUE],
      [virt |-> [c \in Cols |-> IF c = "A" THEN ListOf("A") ELSE NoVirt],
       action |-> "ignore", refprop |-> TRUE] }

\* Entity types whose related type declares no ReferenceProperty named by
\* the virtual field's refers_to.
SchemasNoRef ==
    { [virt |-> [c \in Cols |-> IF c = "A" THEN vd ELSE NoVirt], action |-> "ignore",
       refprop |-> FALSE]
        : vd \in {ListOf("B"), SingleOf("B")} }

Virt(c) == schema.virt[c]

\* isinstance(prop, (VirtualComplexProperty, VirtualListProperty)).
IsVirtual(vd) == vd.shape # "none"

\* The descriptors that carry refers_to, the name of the reference field of
\* the related type: VirtualListProperty does, VirtualComplexProperty does not.
HasRefersTo(vd) == vd.shape = "list"

\* _get_reference_prop (lines 276-281): the related type has a
\* ReferenceProperty of that name.
HasReferenceProp(vd) == schema.refprop

\* ---------------------------------------------------------------- helpers
Range(s) == { s[i] : i \in 1..Len(s) }
Last(s) == s[Len(s)]
Front(s) == SubSeq(s, 1, Len(s) - 1)
Top(t) == Last(stack[t])
Idle(t) == stack[t] = <<>>
\* Tasks are interchangeable: a new operation runs in the first idle one.
FirstIdle(t) == Idle(t) /\ \A u \in 1..(t - 1) : ~Idle(u)
KeysOf(s) == { s[i].key : i \in 1..Len(s) }

\* serialize(): the wire tree of a slave entity.  Virtual values still held
\* by the attribute are encoded recursively (is_list / is_complex branches).
RECURSIVE Encode(_, _)
Encode(h, o) ==
    [val |-> h[o].val, ref |-> h[o].ref,
     kids |-> [i \in 1..Len(h[o].kids) |-> Encode(h, h[o].kids[i])]]

\* json.dumps(serialize(master)) + "\n": one line of a collection file.
Line(h, ms, m) == [key |-> ms[m].id, slave |-> Encode(h, ms[m].slave)]

\* Collection._get_line_id: the key read at its fixed offset of the line.
GetLineId(line) == line.key

\* deserialize(): a fresh slave object from a wire tree; nested trees of a
\* complex field become fresh objects of the related type first.
Deserialize(h, c, tree) ==
    LET n == Len(tree.kids)
        kidObjs == [i \in 1..n |->
                      [type |-> Virt(c).target, val |-> tree.kids[i].val,
                       ref |-> tree.kids[i].ref, kids |-> <<>>, tid |-> None]]
    IN  Append(h \o kidObjs,
               [type |-> c, val |-> tree.val, ref |-> tree.ref,
                kids |-> [i \in 1..n |-> Len(h) + i], tid |-> None])

\* _EntityTracker.modified: the current encoding against the initial schema.
Modified(h, ms, tr) == Encode(h, ms[tr.master].slave) # tr.init

\* dict assignment self._entity_trackers[key] = tracker: an existing key
\* keeps its position, a new key goes last.
PutTracker(trs, tr) ==
    IF tr.key \in KeysOf(trs)
    THEN [i \in 1..Len(trs) |-> IF trs[i].key = tr.key THEN tr ELSE trs[i]]
    ELSE Append(trs, tr)

\* AbstractCollection._tracked on a master entity ms[m] of collection c:
\* the tracker starts in mode update and the slave gets its __tracking_id__.
Tracked(M, c, m, mode) ==
    LET o == M.masters[m].slave
        k == M.masters[m].id
    IN  [M EXCEPT
            !.heap = [@ EXCEPT ![o].tid = k],
            !.trackers = [@ EXCEPT ![c] =
                PutTracker(@, [key |-> k, master |-> m, mode |-> mode,
                               init |-> Encode(M.heap, o)])]]

\* The memory the synchronous helpers work on.
Mem == [heap |-> heap, masters |-> masters, trackers |-> trackers, nextKey |-> nextKey]

\* AbstractCollection.add: a master entity with a fresh key, tracked, create.
AddEntity(M, c, o) ==
    LET M1 == [M EXCEPT !.masters = Append(@, [id |-> M.nextKey, slave |-> o]),
                        !.nextKey = @ + 1]
    IN  Tracked(M1, c, Len(M1.masters), "create")

\* ---------------------------------------------------------------- queries
\* A query built by QueryFactory names a stored field and compares its wire
\* value with a value; p & q and p | q build a combined query of the two.
NoQuery == [op |-> "none", field |-> "none", value |-> 0, subs |-> <<>>]
Queries ==
    LET simple == {[op |-> op, field |-> "val", value |-> v, subs |-> <<>>] :
                      op \in {"eq", "ne", "gt", "lt"}, v \in Vals}
                  \cup {[op |-> "eq", field |-> "ref", value |-> 1, subs |-> <<>>]}
        p == [op |-> "gt", field |-> "val", value |-> 1, subs |-> <<>>]
        r == [op |-> "eq", field |-> "ref", value |-> 1, subs |-> <<>>]
    IN  simple \cup {[op |-> op, field |-> "none", value |-> 0, subs |-> <<p, r>>] :
                        op \in {"and", "or"}}

\* QueryBuilder.field_name: AndQueryBuilder and OrQueryBuilder are not
\* QueryBuilders and have no such attribute.
HasFieldName(q) == q.op \notin {"and", "or"}

\* __check__ of the query builders.
CheckAny(q, v) == TRUE
Check(q, v) ==
    CASE q.op = "eq" -> v = q.value
      [] q.op = "ne" -> v # q.value
      [] q.op = "gt" -> v > q.value
      [] q.op = "lt" -> v < q.value
      [] OTHER -> TRUE

\* ---------------------------------------------------------------- frames
NoPart == [created |-> <<>>, updated |-> <<>>, deleted |-> <<>>]

Frame(kind, c, pc) ==
    [kind |-> kind, col |-> c, pc |-> pc,
     part |-> NoPart,        \* updated_data of the commit
     i |-> 0,                \* loop position: created entity / line being read
     v |-> 0,                \* value of the virtual field being normalized
     j |-> 0,                \* deleted entity whose cascade runs
     site |-> "",            \* which loop called _manage_referral_properties
     cnt |-> 0,              \* changes_made_count
     modified |-> FALSE, tmpCreated |-> FALSE,
     holds |-> FALSE,        \* this frame is inside async with _main_file_lock
     rv |-> None,            \* what the awaited call returned
     pre |-> Missing,        \* the live file when the critical section began
     rel |-> Missing,        \* the related collection's file at that moment
     vals |-> <<>>,          \* values: what the virtual field held on entry
     normed |-> <<>>,        \* the entities written so far, with their values
     snap |-> Missing,       \* scan: the temporary copy of the live file
     atcopy |-> Missing,     \* scan: the live file at the copy step
     pos |-> 0,              \* scan: lines read so far
     flt |-> None,           \* scan: the reference value filtered on, or None
     use |-> "",             \* scan: who consumes the items
     inc |-> FALSE,          \* scan: include() has selected the virtual field
     q |-> NoQuery,          \* scan: the query of find_all_async
     filters |-> <<>>,       \* context: _queries, the filters registered
     term |-> "",            \* context: the operation that is iterating
     calls |-> 0,            \* context: operations called so far
     got |-> <<>>]           \* scan: the records yielded so far

\* _save_changes, lines 356-371: the tracker table split by tracking mode.
Entry(tr) == [key |-> tr.key, master |-> tr.master]
EntriesOf(trs) == [i \in 1..Len(trs) |-> Entry(trs[i])]
Partition(M, c) ==
    [created |-> EntriesOf(SelectSeq(M.trackers[c], LAMBDA tr : tr.mode = "create")),
     updated |-> EntriesOf(SelectSeq(M.trackers[c],
                    LAMBDA tr : tr.mode = "update" /\ Modified(M.heap, M.masters, tr))),
     deleted |-> EntriesOf(SelectSeq(M.trackers[c], LAMBDA tr : tr.mode = "delete"))]

NoCrash == [cut |-> FALSE, pre |-> Missing, post |-> Missing]

\* line 374: not any(any(mode) for mode in updated_data.values()).
NothingToDoNever(p) == FALSE
NothingToDo(p) == p.created = <<>> /\ p.updated = <<>> /\ p.deleted = <<>>

InitDone == [kind |-> "none", col |-> "none", ok |-> TRUE, cnt |-> 0]

InitMemory ==
    /\ heap = <<>>
    /\ masters = <<>>
    /\ trackers = [c \in Cols |-> <<>>]
    /\ file = [c \in Cols |-> Missing]
    /\ tmpf = [c \in Cols |-> Missing]
    /\ lock = [c \in Cols |-> None]
    /\ nextKey = 1
    /\ stack = [t \in Tasks |-> <<>>]
    /\ done = [t \in Tasks |-> InitDone]
    /\ alive = TRUE
    /\ crash = [c \in Cols |-> NoCrash]
    /\ running = None
    /\ ops = [adds |-> 0, deletes |-> 0, mutates |-> 0, attach |-> 0,
              commits |-> 0, scans |-> 0, counts |-> 0, drops |-> 0,
              replaces |-> 0]
    /\ temps = [c \in Cols |-> 0]
    /\ closing = [c \in Cols |-> 0]
    /\ mainCtx = [c \in Cols |-> None]
    /\ ctxs = <<>>
Init == schema \in Schemas /\ InitMemory /\ codec = NoCodec
InitNoRef == schema \in SchemasNoRef /\ InitMemory /\ codec = NoCodec

\* ---------------------------------------------------------------- stacks
WithTop(t, fr) == [stack EXCEPT ![t] = Append(Front(@), fr)]
Push(t, parent, child) == [stack EXCEPT ![t] = Append(Append(Front(@), parent), child)]

\* Where the caller goes on once the awaited call has returned.
Resume(fr, x) ==
    CASE fr.pc = "norm_sub" -> [fr EXCEPT !.pc = "write", !.rv = x]
      [] fr.pc = "casc_sub" -> [fr EXCEPT !.pc = "cascade", !.j = @ + 1, !.rv = x]
      [] fr.pc = "casc_scan" -> [fr EXCEPT !.pc = "casc_commit", !.rv = x]
      [] fr.pc = "s_incl" -> [fr EXCEPT !.pc = "s_incl_ret", !.vals = x]
      [] OTHER -> [fr EXCEPT !.rv = x]

Outcome(fr, ok) == [kind |-> fr.kind, col |-> fr.col, ok |-> ok, cnt |-> fr.cnt]

\* The top frame returns x to its caller, or ends the task's operation.
ReturnStack(t, fr, x) ==
    IF Len(stack[t]) = 1 THEN <<>>
    ELSE Append(SubSeq(stack[t], 1, Len(stack[t]) - 2),
                Resume(stack[t][Len(stack[t]) - 1], x))
ReturnDone(t, fr) ==
    IF Len(stack[t]) = 1 THEN [done EXCEPT ![t] = Outcome(fr, TRUE)] ELSE done

\* An exception leaves every frame of the task: each async with releases
\* the lock its frame holds; nothing else is undone.
LocksAfterRaise(t) ==
    [c \in Cols |->
        IF \E n \in 1..Len(stack[t]) : stack[t][n].holds /\ stack[t][n].col = c
        THEN None ELSE lock[c]]
RaiseDone(t) == [done EXCEPT ![t] = Outcome(stack[t][1], FALSE)]

\* A scan owns a snapshot temp file from its copy (__aenter__, line 96) to
\* its close (line 119).
HoldsTemp(fr) ==
    fr.kind = "scan" /\ fr.pc \in {"s_iter", "s_incl", "s_incl_ret", "q_idle", "q_iter"}
\* _CollectionQueryableContext.close, line 119: os.remove(self._file_path).
Removed(n) == n - 1
\* An exception leaves through the "async with" of every scan of the task
\* (__aexit__, lines 100-101), which closes it.
RECURSIVE TempsClosed(_, _)
TempsClosed(tp, frs) ==
    IF frs = <<>> THEN tp
    ELSE TempsClosed(IF HoldsTemp(Head(frs)) THEN [tp EXCEPT ![Head(frs).col] = Removed(@)]
                     ELSE tp, Tail(frs))
TempsAfterRaise(t) == TempsClosed(temps, stack[t])

CanRun(t) == alive /\ running \in {None, t}
\* The callers issue a bounded number of operations (fewer in a run in which
\* operations have overlapped), and change entities between operations, not
\* during them.
TotalOps ==
    ops.adds + ops.deletes + ops.mutates + ops.attach + ops.commits + ops.scans + ops.counts
        + ops.drops + ops.replaces
Overlapped == \E t \in Tasks : t # 1 /\ (stack[t] # <<>> \/ done[t].kind # "none")
OpsLeft(t) == TotalOps < (IF t # 1 \/ Overlapped THEN MaxConcOps ELSE MaxOps)
Quiet == alive /\ running = None /\ (\A t \in Tasks : stack[t] = <<>>) /\ OpsLeft(1)
AtPc(t, kind, pc) == stack[t] # <<>> /\ Top(t).kind = kind /\ Top(t).pc = pc

\* ---------------------------------------------------------------- callers
\* add(entity): a new entity, with n untracked related entities in its
\* virtual field, handed to collection c.  No I/O.
NewKids(c, n) ==
    [i \in 1..n |-> [type |-> Virt(c).target, val |-> 1, ref |-> None,
                     kids |-> <<>>, tid |-> None]]
\* What add() leaves in the collection's file: what was there (lines
\* 637-640 open and write nothing).
FileAfterAddAppended(f, line) == [there |-> TRUE, lines |-> Append(f.lines, line)]
FileAfterAdd(f, line) == f
Add(c, n) ==
    /\ Quiet
    /\ ops.adds < MaxAdds
    /\ n > 0 => Virt(c).shape # "none"
    /\ LET h1 == heap \o NewKids(c, n)
           h2 == Append(h1, [type |-> c, val |-> 1, ref |-> None,
                             kids |-> [i \in 1..n |-> Len(heap) + i], tid |-> None])
           M == AddEntity([Mem EXCEPT !.heap = h2], c, Len(h2))
       IN  /\ heap' = M.heap
           /\ masters' = M.masters
           /\ trackers' = M.trackers
           /\ nextKey' = M.nextKey
           /\ file' = [file EXCEPT ![c] = FileAfterAdd(@, Line(M.heap, M.masters, Len(M.masters)))]
    /\ ops' = [ops EXCEPT !.adds = @ + 1]
    /\ UNCHANGED <<schema, tmpf, lock, stack, done, alive, crash, running,
                   temps, closing, mainCtx, ctxs, codec>>

\* _get_tracker: the tracker filed under the entity's __tracking_id__
\* (ValueError without the attribute, KeyError without the table entry).
HasTrackerAlways(trs, h, o) == TRUE
HasTracker(trs, h, o) == h[o].tid # None /\ h[o].tid \in KeysOf(trs)
SetMode(trs, k, mode) ==
    [i \in 1..Len(trs) |-> IF trs[i].key = k THEN [trs[i] EXCEPT !.mode = mode] ELSE trs[i]]

\* delete(entity) on the collection of the entity's type: the tracker goes
\* to state delete; without a tracker _get_tracker raises and nothing is
\* changed.
DeleteEntity(trs, h, o) == SetMode(trs, h[o].tid, "delete")
Delete(o) ==
    /\ Quiet
    /\ ops.deletes < MaxDeletes
    /\ LET c == heap[o].type
           ok == HasTracker(trackers[c], heap, o)
       IN  /\ trackers' = IF ok THEN [trackers EXCEPT ![c] = DeleteEntity(@, heap, o)]
                          ELSE trackers
           /\ done' = [done EXCEPT ![1] = [kind |-> "delete", col |-> c, ok |-> ok, cnt |-> 0]]
    /\ ops' = [ops EXCEPT !.deletes = @ + 1]
    /\ UNCHANGED <<schema, heap, masters, file, tmpf, lock, nextKey, stack,
                   alive, crash, running,
                   temps, closing, mainCtx, ctxs, codec>>

\* The caller assigns a stored field of a tracked entity.
Mutate(o, v) ==
    /\ Quiet
    /\ ops.mutates < MaxMutates
    /\ heap[o].tid # None
    /\ heap[o].val # v
    /\ heap' = [heap EXCEPT ![o].val = v]
    /\ ops' = [ops EXCEPT !.mutates = @ + 1]
    /\ UNCHANGED <<schema, masters, trackers, file, tmpf, lock, nextKey, stack, done,
                   alive, crash, running,
                   temps, closing, mainCtx, ctxs, codec>>

\* The caller puts an entity that is already tracked into the virtual field
\* of a tracked parent.
Attach(p, ch) ==
    /\ Quiet
    /\ ops.attach < MaxAttach
    /\ p # ch
    /\ heap[p].tid # None /\ heap[ch].tid # None
    /\ Virt(heap[p].type).shape # "none"
    /\ heap[ch].type = Virt(heap[p].type).target
    /\ heap[ch].kids = <<>> /\ heap[p].kids = <<>>
    /\ \A q \in 1..Len(heap) : ch \notin Range(heap[q].kids) /\ p \notin Range(heap[q].kids)
    /\ heap' = [heap EXCEPT ![p].kids = <<ch>>]
    /\ ops' = [ops EXCEPT !.attach = @ + 1]
    /\ UNCHANGED <<schema, masters, trackers, file, tmpf, lock, nextKey, stack, done,
                   alive, crash, running,
                   temps, closing, mainCtx, ctxs, codec>>

\* save_changes_async() called by a task: the partition runs at once; with
\* nothing to do the call returns 0 without any I/O.
StartCommit(t, c) ==
    /\ CanRun(t) /\ FirstIdle(t)
    /\ ops.commits < MaxCommits /\ OpsLeft(t)
    /\ LET p == Partition(Mem, c)
           fr == [Frame("commit", c, "ensure") EXCEPT !.part = p]
       IN  IF NothingToDo(p)
           THEN /\ done' = [done EXCEPT ![t] = Outcome(fr, TRUE)]
                /\ stack' = stack
           ELSE /\ stack' = [stack EXCEPT ![t] = <<fr>>]
                /\ done' = done
    /\ ops' = [ops EXCEPT !.commits = @ + 1]
    /\ UNCHANGED <<schema, heap, masters, trackers, file, tmpf, lock, nextKey,
                   alive, crash, running,
                   temps, closing, mainCtx, ctxs, codec>>

\* ---------------------------------------------------------------- commit
\* _ensure_collection_exists: under the lock, create the file if absent.
\* Shared by the commit (line 375) and by the scan's copy (line 485).
Ensure(t) ==
    /\ CanRun(t)
    /\ AtPc(t, "commit", "ensure") \/ AtPc(t, "scan", "s_ensure")
    /\ lock[Top(t).col] = None
    /\ file' = [file EXCEPT ![Top(t).col] = IF @ = Missing THEN Empty ELSE @]
    /\ stack' = WithTop(t, [Top(t) EXCEPT !.pc = IF @ = "ensure" THEN "acq" ELSE "s_copy"])
    /\ UNCHANGED <<schema, heap, masters, trackers, tmpf, lock, nextKey, done, alive, crash,
                   running, ops,
                   temps, closing, mainCtx, ctxs, codec>>

\* async with self._main_file_lock (line 376): the task waits until the lock
\* is free, takes it, and opens the file it works on first.
LockFreeAlways(c) == TRUE
LockFree(c) == lock[c] = None
Acquire(t) ==
    /\ CanRun(t)
    /\ AtPc(t, "commit", "acq")
    /\ LockFree(Top(t).col)
    /\ lock' = [lock EXCEPT ![Top(t).col] = t]
    /\ stack' = WithTop(t, [Top(t) EXCEPT
            !.holds = TRUE, !.pre = file[Top(t).col],
            !.rel = IF IsVirtual(Virt(Top(t).col)) THEN file[Virt(Top(t).col).target] ELSE Missing,
            !.pc = IF Top(t).part.created # <<>> THEN "norm" ELSE "rw_open",
            !.site = "app", !.i = 1, !.v = 0])
    /\ UNCHANGED <<schema, heap, masters, trackers, file, tmpf, nextKey, done, alive, crash,
                   running, ops,
                   temps, closing, mainCtx, ctxs, codec>>

\* The entity _manage_referral_properties is working on.
NormEntry(fr) ==
    IF fr.site = "app" THEN fr.part.created[fr.i]
    ELSE CHOOSE e \in Range(fr.part.updated) : e.key = GetLineId(file[fr.col].lines[fr.i])

\* _manage_referral_properties, lines 296-303: the values that carry no
\* __tracking_id__ get the parent's key as reference and are added to the
\* related collection; the loop stops at the first value that is tracked.
RECURSIVE NormValues(_, _, _, _, _)
NormValues(M, tc, key, vals, v) ==
    IF v > Len(vals) \/ M.heap[vals[v]].tid # None
    THEN [M |-> M, v |-> v]
    ELSE NormValues(AddEntity([M EXCEPT !.heap[vals[v]].ref = key], tc, vals[v]),
                    tc, key, vals, v + 1)

\* Which shapes of virtual field the loop of lines 293-317 handles.
NormalizesNothing(vd) == FALSE
Normalizes(vd) == vd.shape = "list"

\* _manage_referral_properties up to its first await: either the scan of
\* get_first_async for a tracked value, or the related collection's commit
\* after the virtual attribute has been deleted from the parent.
Normalize(t) ==
    /\ CanRun(t)
    /\ AtPc(t, "commit", "norm")
    /\ LET fr == Top(t)
           e == NormEntry(fr)
           o == masters[e.master].slave
           vd == Virt(fr.col)
           r == NormValues(Mem, vd.target, masters[e.master].id, heap[o].kids, fr.v + 1)
           M2 == [r.M EXCEPT !.heap[o].kids = <<>>]
           p == Partition(M2, vd.target)
       IN  IF ~Normalizes(vd)
           THEN /\ stack' = WithTop(t, [fr EXCEPT !.pc = "write", !.vals = heap[o].kids])
                /\ UNCHANGED <<heap, masters, trackers, nextKey, lock, done>>
           ELSE IF heap[o].kids # <<>> /\ ~HasReferenceProp(vd)
           THEN /\ stack' = [stack EXCEPT ![t] = <<>>]
                /\ lock' = LocksAfterRaise(t)
                /\ done' = RaiseDone(t)
                /\ UNCHANGED <<heap, masters, trackers, nextKey>>
           ELSE IF r.v <= Len(heap[o].kids)
           THEN /\ stack' = Push(t, [fr EXCEPT !.pc = "norm_first", !.v = r.v,
                                              !.vals = heap[o].kids],
                                 [Frame("scan", vd.target, "s_ensure") EXCEPT
                                    !.flt = masters[e.master].id, !.use = "first"])
                /\ heap' = r.M.heap /\ masters' = r.M.masters
                /\ trackers' = r.M.trackers /\ nextKey' = r.M.nextKey
                /\ UNCHANGED <<lock, done>>
           ELSE /\ stack' = IF NothingToDo(p)
                            THEN WithTop(t, [fr EXCEPT !.pc = "write", !.vals = heap[o].kids])
                            ELSE Push(t, [fr EXCEPT !.pc = "norm_sub", !.vals = heap[o].kids],
                                      [Frame("commit", vd.target, "ensure") EXCEPT !.part = p])
                /\ heap' = M2.heap /\ masters' = M2.masters
                /\ trackers' = M2.trackers /\ nextKey' = M2.nextKey
                /\ UNCHANGED <<lock, done>>
    /\ UNCHANGED <<schema, file, tmpf, alive, crash, running, ops,
                   temps, closing, mainCtx, ctxs, codec>>

\* AbstractCollection.replace_entity / _EntityTracker.replace_entity: the
\* tracker of old now tracks new, under the same key.
CanReplace(M, tc, old) == M.heap[old].tid # None /\ M.heap[old].tid \in KeysOf(M.trackers[tc])
ReplaceEntityUnbound(M, tc, old, new) ==
    LET k == M.heap[old].tid
    IN  [M EXCEPT !.heap[new].tid = k]
ReplaceEntity(M, tc, old, new) ==
    LET k == M.heap[old].tid
        tr == CHOOSE x \in Range(M.trackers[tc]) : x.key = k
    IN  [M EXCEPT !.heap[new].tid = k, !.masters[tr.master].slave = new]

\* replace_entity(old, new) called on the collection of old's type with a
\* new entity of that type holding v: without __tracking_id__ on old the
\* call raises ValueError; with an id that has no tracker, new has been given
\* the id when the table lookup raises KeyError.  The call returns new.
Replace(old, v) ==
    /\ Quiet
    /\ ops.replaces < MaxReplaces
    /\ LET c == heap[old].type
           new == Len(heap) + 1
           h1 == Append(heap, [type |-> c, val |-> v, ref |-> None,
                               kids |-> <<>>, tid |-> None])
           M1 == [Mem EXCEPT !.heap = h1]
           ok == CanReplace(M1, c, old)
           M2 == IF ok THEN ReplaceEntity(M1, c, old, new)
                 ELSE [M1 EXCEPT !.heap[new].tid = heap[old].tid]
       IN  /\ heap' = M2.heap
           /\ masters' = M2.masters
           /\ trackers' = M2.trackers
           /\ done' = [done EXCEPT ![1] = [kind |-> "replace", col |-> c,
                                           ok |-> ok, cnt |-> new]]
    /\ ops' = [ops EXCEPT !.replaces = @ + 1]
    /\ UNCHANGED <<schema, file, tmpf, lock, nextKey, stack, alive, crash,
                   running, temps, closing, mainCtx, ctxs, codec>>

\* lines 305-311: get_first_async has returned for the tracked value.
NormFirstRet(t) ==
    /\ CanRun(t)
    /\ AtPc(t, "commit", "norm_first")
    /\ LET fr == Top(t)
           e == NormEntry(fr)
           o == masters[e.master].slave
           tc == Virt(fr.col).target
           value == heap[o].kids[fr.v]
           M2 == IF fr.rv = None THEN AddEntity(Mem, tc, value)
                 ELSE ReplaceEntity(Mem, tc, fr.rv, value)
       IN  IF fr.rv # None /\ ~CanReplace(Mem, tc, fr.rv)
           THEN /\ stack' = [stack EXCEPT ![t] = <<>>]
                /\ lock' = LocksAfterRaise(t)
                /\ done' = RaiseDone(t)
                /\ UNCHANGED <<heap, masters, trackers, nextKey>>
           ELSE /\ stack' = WithTop(t, [fr EXCEPT !.pc = "norm"])
                /\ heap' = M2.heap /\ masters' = M2.masters
                /\ trackers' = M2.trackers /\ nextKey' = M2.nextKey
                /\ UNCHANGED <<lock, done>>
    /\ UNCHANGED <<schema, file, tmpf, alive, crash, running, ops,
                   temps, closing, mainCtx, ctxs, codec>>

\* changes_made_count += 1 (lines 389, 402 and 409).
CountedNot(n) == n
Counted(n) == n + 1

\* lines 387-389 and 406-409: the entity's line is written, to the live file
\* in the add loop, to the rewrite file in the update loop.
\* Each write is an await of its own; the line is taken to be in the file
\* when the write returns (the stream's buffer is as large as the platform
\* makes it, so a line may reach the disk at any write).
AppendLineTruncating(f, line) == [there |-> TRUE, lines |-> <<line>>]
AppendLine(f, line) == [there |-> TRUE, lines |-> Append(f.lines, line)]
WriteLine(t) ==
    /\ CanRun(t)
    /\ AtPc(t, "commit", "write")
    /\ LET fr == Top(t)
           c == fr.col
           line == Line(heap, masters, NormEntry(fr).master)
           more == fr.i < Len(fr.part.created)
           rw == fr.part.updated # <<>> \/ fr.part.deleted # <<>>
       IN  IF fr.site = "app"
           THEN /\ file' = [file EXCEPT ![c] = AppendLine(@, line)]
                /\ tmpf' = tmpf
                /\ stack' = WithTop(t, [fr EXCEPT
                      !.cnt = Counted(@), !.v = 0,
                      !.normed = Append(@, [master |-> NormEntry(fr).master, vals |-> fr.vals]),
                      !.i = IF more THEN @ + 1 ELSE @,
                      !.pc = IF more THEN "norm" ELSE IF rw THEN "rw_open" ELSE "fin"])
           ELSE /\ tmpf' = [tmpf EXCEPT ![c] = AppendLine(@, line)]
                /\ file' = file
                /\ stack' = WithTop(t, [fr EXCEPT
                      !.cnt = Counted(@), !.v = 0,
                      !.normed = Append(@, [master |-> NormEntry(fr).master, vals |-> fr.vals]),
                      !.modified = TRUE, !.i = @ + 1, !.pc = "rw_line"])
    /\ UNCHANGED <<schema, heap, masters, trackers, lock, nextKey, done, alive, crash,
                   running, ops,
                   temps, closing, mainCtx, ctxs, codec>>

\* lines 392-395: the live file is opened for reading, the rewrite file for
\* writing.
RewriteOpen(t) ==
    /\ CanRun(t)
    /\ AtPc(t, "commit", "rw_open")
    /\ LET fr == Top(t)
       IN  IF file[fr.col] = Missing
           THEN /\ stack' = [stack EXCEPT ![t] = <<>>]
                /\ lock' = LocksAfterRaise(t)
                /\ done' = RaiseDone(t)
                /\ tmpf' = tmpf
           ELSE /\ stack' = WithTop(t, [fr EXCEPT !.pc = "rw_line", !.site = "rw",
                                                  !.i = 1, !.tmpCreated = TRUE])
                /\ tmpf' = [tmpf EXCEPT ![fr.col] = Empty]
                /\ UNCHANGED <<lock, done>>
    /\ UNCHANGED <<schema, heap, masters, trackers, file, nextKey, alive, crash, running, ops,
                   temps, closing, mainCtx, ctxs, codec>>

\* What the rewrite loop puts into the rewrite file for a deleted line
\* (tmp_f.write(""), line 400): nothing.
DeletedLineKept(line) == <<line>>
DeletedLine(line) == <<>>

\* lines 396-411: one line of the live file is read and dealt with.
RewriteLine(t) ==
    /\ CanRun(t)
    /\ AtPc(t, "commit", "rw_line")
    /\ LET fr == Top(t)
           c == fr.col
           line == file[c].lines[fr.i]
       IN  IF fr.i > Len(file[c].lines)
           THEN /\ stack' = WithTop(t, [fr EXCEPT !.pc = IF fr.modified THEN "swap" ELSE "fin"])
                /\ tmpf' = tmpf
           ELSE IF GetLineId(line) \in KeysOf(fr.part.deleted)
           THEN /\ stack' = WithTop(t, [fr EXCEPT !.modified = TRUE, !.cnt = Counted(@), !.i = @ + 1])
                /\ tmpf' = [tmpf EXCEPT ![c].lines = @ \o DeletedLine(line)]
           ELSE IF GetLineId(line) \in KeysOf(fr.part.updated)
           THEN /\ stack' = WithTop(t, [fr EXCEPT !.pc = "norm", !.v = 0])
                /\ tmpf' = tmpf
           ELSE /\ stack' = WithTop(t, [fr EXCEPT !.i = @ + 1])
                /\ tmpf' = [tmpf EXCEPT ![c].lines = Append(@, line)]
    /\ UNCHANGED <<schema, heap, masters, trackers, file, lock, nextKey, done, alive, crash,
                   running, ops,
                   temps, closing, mainCtx, ctxs, codec>>

\* line 413: os.remove(file_path).  No await follows before the rename.
SwapRemove(t) ==
    /\ CanRun(t)
    /\ AtPc(t, "commit", "swap")
    /\ file' = [file EXCEPT ![Top(t).col] = Missing]
    /\ running' = t
    /\ stack' = WithTop(t, [Top(t) EXCEPT !.pc = "rename"])
    /\ UNCHANGED <<schema, heap, masters, trackers, tmpf, lock, nextKey, done, alive, crash, ops,
                   temps, closing, mainCtx, ctxs, codec>>

\* line 414: os.rename(tmp_path, file_path).
SwapRename(t) ==
    /\ CanRun(t)
    /\ AtPc(t, "commit", "rename")
    /\ file' = [file EXCEPT ![Top(t).col] = tmpf[Top(t).col]]
    /\ tmpf' = [tmpf EXCEPT ![Top(t).col] = Missing]
    /\ running' = None
    /\ stack' = WithTop(t, [Top(t) EXCEPT !.pc = "cascade", !.j = 1])
    /\ UNCHANGED <<schema, heap, masters, trackers, lock, nextKey, done, alive, crash, ops,
                   temps, closing, mainCtx, ctxs, codec>>

\* The delete action configured for the virtual field of collection c
\* (CollectionConfiguration.get_property_config); only A is configured.
CascadeAction(c) == IF c = "A" THEN schema.action ELSE "none"

\* _care_about_virtual_props for the next deleted entity, up to its first
\* await: the scan of iter_referenced_by_async over the related collection.
Cascade(t) ==
    /\ CanRun(t)
    /\ AtPc(t, "commit", "cascade")
    /\ LET fr == Top(t)
           c == fr.col
           o == masters[fr.part.deleted[fr.j].master].slave
           act == CascadeAction(c)
       IN  IF fr.j > Len(fr.part.deleted)
           THEN /\ stack' = WithTop(t, [fr EXCEPT !.pc = "fin"])
                /\ UNCHANGED <<lock, done>>
           ELSE IF ~IsVirtual(Virt(c)) \/ act \notin {"delete_entity", "delete_reference"}
           THEN /\ stack' = WithTop(t, [fr EXCEPT !.j = @ + 1])
                /\ UNCHANGED <<lock, done>>
           ELSE IF ~HasTracker(trackers[c], heap, o) \/ ~HasRefersTo(Virt(c))
           THEN /\ stack' = [stack EXCEPT ![t] = <<>>]
                /\ lock' = LocksAfterRaise(t)
                /\ done' = RaiseDone(t)
           ELSE /\ stack' = Push(t, [fr EXCEPT !.pc = "casc_scan"],
                                 [Frame("scan", Virt(c).target, "s_ensure") EXCEPT
                                    !.flt = heap[o].tid,
                                    !.use = IF act = "delete_entity" THEN "del" ELSE "unref"])
                /\ UNCHANGED <<lock, done>>
    /\ UNCHANGED <<schema, heap, masters, trackers, file, tmpf, nextKey, alive, crash, running, ops,
                   temps, closing, mainCtx, ctxs, codec>>

\* lines 339 and 348-350: the related collection is committed.
CascadeCommit(t) ==
    /\ CanRun(t)
    /\ AtPc(t, "commit", "casc_commit")
    /\ LET fr == Top(t)
           tc == Virt(fr.col).target
           p == Partition(Mem, tc)
       IN  stack' = IF NothingToDo(p)
                    THEN WithTop(t, [fr EXCEPT !.pc = "cascade", !.j = @ + 1])
                    ELSE Push(t, [fr EXCEPT !.pc = "casc_sub"],
                              [Frame("commit", tc, "ensure") EXCEPT !.part = p])
    /\ UNCHANGED <<schema, heap, masters, trackers, file, tmpf, lock, nextKey, done,
                   alive, crash, running, ops,
                   temps, closing, mainCtx, ctxs, codec>>

\* line 425: self._entity_trackers.pop(tracker_key).
RemoveKeyNot(trs, k) == trs
RemoveKey(trs, k) == SelectSeq(trs, LAMBDA tr : tr.key # k)

\* lines 422-426: every committed key is popped from the tracker table and
\* the popped tracker's entity loses its __tracking_id__.  A key that is no
\* longer in the table (KeyError) or an entity without the attribute
\* (AttributeError) ends the loop with an exception.
RECURSIVE CleanUp(_, _, _, _)
CleanUp(trs, h, ms, keys) ==
    IF keys = <<>> THEN [trackers |-> trs, heap |-> h, ok |-> TRUE]
    ELSE IF Head(keys) \notin KeysOf(trs) THEN [trackers |-> trs, heap |-> h, ok |-> FALSE]
    ELSE LET tr == CHOOSE x \in Range(trs) : x.key = Head(keys)
             o == ms[tr.master].slave
         IN  IF h[o].tid = None
             THEN [trackers |-> RemoveKey(trs, tr.key), heap |-> h, ok |-> FALSE]
             ELSE CleanUp(RemoveKey(trs, tr.key), [h EXCEPT ![o].tid = None], ms, Tail(keys))

KeySeq(es) == [i \in 1..Len(es) |-> es[i].key]
CommittedKeysWritten(p) == KeySeq(p.updated) \o KeySeq(p.created)
CommittedKeys(p) == KeySeq(p.updated) \o KeySeq(p.created) \o KeySeq(p.deleted)

\* lines 418-427: an unused rewrite file is removed, the trackers are
\* cleaned up, the lock is released and the count returned.
Finish(t) ==
    /\ CanRun(t)
    /\ AtPc(t, "commit", "fin")
    /\ LET fr == Top(t)
           c == fr.col
           r == CleanUp(trackers[c], heap, masters, CommittedKeys(fr.part))
       IN  /\ tmpf' = [tmpf EXCEPT ![c] = IF ~fr.modified /\ fr.tmpCreated THEN Missing ELSE @]
           /\ trackers' = [trackers EXCEPT ![c] = r.trackers]
           /\ heap' = r.heap
           /\ IF r.ok
              THEN /\ lock' = [lock EXCEPT ![c] = None]
                   /\ stack' = [stack EXCEPT ![t] = ReturnStack(t, fr, fr.cnt)]
                   /\ done' = ReturnDone(t, fr)
              ELSE /\ lock' = LocksAfterRaise(t)
                   /\ stack' = [stack EXCEPT ![t] = <<>>]
                   /\ done' = RaiseDone(t)
    /\ UNCHANGED <<schema, masters, file, nextKey, alive, crash, running, ops,
                   temps, closing, mainCtx, ctxs, codec>>

\* ---------------------------------------------------------------- scans
\* find_all_async(query), lines 501-503: the selector is built from the
\* query's field name, then the scan begins as any other.
StartFind(t, c, q) ==
    /\ CanRun(t) /\ FirstIdle(t)
    /\ ops.scans < (IF t # 1 \/ Overlapped THEN MaxScans ELSE MaxSeqScans)
    /\ OpsLeft(t)
    /\ IF HasFieldName(q)
       THEN /\ stack' = [stack EXCEPT ![t] =
                   <<[Frame("scan", c, "s_ensure") EXCEPT !.use = "user", !.q = q]>>]
            /\ done' = done
       ELSE /\ stack' = stack
            /\ done' = [done EXCEPT ![t] = [kind |-> "scan", col |-> c,
                                            ok |-> FALSE, cnt |-> 0]]
    /\ ops' = [ops EXCEPT !.scans = @ + 1]
    /\ UNCHANGED <<schema, heap, masters, trackers, file, tmpf, lock, nextKey,
                   alive, crash, running, temps, closing, mainCtx, ctxs, codec>>

\* iterate over a collection: get_queryable() and its __aenter__.
StartScan(t, c) ==
    /\ CanRun(t) /\ FirstIdle(t)
    /\ ops.scans < (IF t # 1 \/ Overlapped THEN MaxScans ELSE MaxSeqScans)
    /\ OpsLeft(t)
    /\ stack' = [stack EXCEPT ![t] = <<[Frame("scan", c, "s_ensure") EXCEPT !.use = "user"]>>]
    /\ ops' = [ops EXCEPT !.scans = @ + 1]
    /\ UNCHANGED <<schema, heap, masters, trackers, file, tmpf, lock, nextKey, done,
                   alive, crash, running,
                   temps, closing, mainCtx, ctxs, codec>>

\* copy_main_file_async, lines 488-489: under the lock the live file is
\* copied to the scan's own temporary file.
\* copy_main_file_async, lines 488-489: the lock is taken for the copy and
\* released when the "async with" block ends, before the first line is read.
LockAfterCopyKept(t, c) == [lock EXCEPT ![c] = t]
LockAfterCopy(t, c) == lock
ScanCopy(t) ==
    /\ CanRun(t)
    /\ AtPc(t, "scan", "s_copy")
    /\ LockFree(Top(t).col)
    /\ LET fr == Top(t)
       IN  IF file[fr.col] = Missing
           THEN /\ stack' = [stack EXCEPT ![t] = <<>>]
                /\ lock' = LocksAfterRaise(t)
                /\ done' = RaiseDone(t)
                /\ temps' = TempsAfterRaise(t)
           ELSE /\ stack' = WithTop(t, [fr EXCEPT !.pc = IF fr.use = "ctx" THEN "q_idle"
                                                         ELSE "s_iter",
                                                  !.snap = file[fr.col],
                                                  !.atcopy = file[fr.col]])
                /\ temps' = [temps EXCEPT ![fr.col] = @ + 1]
                /\ lock' = LockAfterCopy(t, fr.col)
                /\ done' = done
    /\ UNCHANGED <<schema, heap, masters, trackers, file, tmpf, nextKey, alive, crash, running, ops,
                   closing, mainCtx, ctxs, codec>>

\* iter_lines, lines 108-111: where the scan reads its lines from.
ScanSourceLive(fr) == file[fr.col].lines
ScanSource(fr) == fr.snap.lines

\* iterate_by_async, lines 568-569: the lines the scan lets through.
MatchesAll(fr, line) == TRUE
Matches(fr, line) ==
    /\ fr.flt = None \/ line.slave.ref = fr.flt
    /\ fr.q = NoQuery \/ Check(fr.q, line.slave[fr.q.field])

\* deserialize + _get_as_tracked: the line becomes a tracked entity.
Load(M, c, line) ==
    LET h1 == Deserialize(M.heap, c, line.slave)
        M1 == [M EXCEPT !.heap = h1,
                        !.masters = Append(@, [id |-> line.key, slave |-> Len(h1)])]
    IN  Tracked(M1, c, Len(M1.masters), "update")

\* line 346, setattr(item, prop.refers_to, None): the item's reference field
\* is set to null.
UnrefKeeps(M, o) == M
Unref(M, o) == [M EXCEPT !.heap[o].ref = None]

\* One line of the scan: read, filtered, decoded, tracked and handed to the
\* consumer (the caller's loop, get_first_async, the cascade's loop, or the
\* result list of load_virtual_props_async); at the end of the lines the
\* scan returns.  With include() the item's virtual field is loaded before
\* the item is handed over (lines 88-91): a scan of the related collection
\* by the item's key, which VirtualComplexProperty cannot name (no
\* refers_to).
ScanNext(t) ==
    /\ CanRun(t)
    /\ AtPc(t, "scan", "s_iter")
    /\ LET fr == Top(t)
           c == fr.col
           line == ScanSource(fr)[fr.pos + 1]
           M1 == Load(Mem, c, line)
           o == Len(M1.heap)
           M2 == CASE fr.use = "del" ->
                        [M1 EXCEPT !.trackers[c] = DeleteEntity(@, M1.heap, o)]
                   [] fr.use = "unref" -> Unref(M1, o)
                   [] OTHER -> M1
       IN  IF fr.pos >= Len(ScanSource(fr))
           THEN /\ stack' = [stack EXCEPT ![t] =
                        ReturnStack(t, fr, IF fr.use = "incl" THEN fr.vals ELSE None)]
                /\ done' = ReturnDone(t, fr)
                /\ temps' = [temps EXCEPT ![c] = Removed(@)]
                /\ UNCHANGED <<heap, masters, trackers, closing>>
           ELSE IF ~Matches(fr, line)
           THEN /\ stack' = WithTop(t, [fr EXCEPT !.pos = @ + 1])
                /\ UNCHANGED <<heap, masters, trackers, done, temps, closing>>
           ELSE /\ heap' = M2.heap /\ masters' = M2.masters /\ trackers' = M2.trackers
                /\ IF fr.inc /\ ~HasRefersTo(Virt(c))
                   THEN /\ stack' = [stack EXCEPT ![t] = <<>>]
                        /\ done' = RaiseDone(t)
                        /\ temps' = TempsAfterRaise(t)
                        /\ UNCHANGED closing
                   ELSE /\ done' = done
                        /\ temps' = temps
                        /\ closing' = IF fr.use = "first"
                                       THEN [closing EXCEPT ![c] = @ + 1] ELSE closing
                        /\ stack' =
                             CASE fr.use = "first" ->
                                    [stack EXCEPT ![t] = ReturnStack(t, fr, o)]
                               [] fr.use = "incl" ->
                                    WithTop(t, [fr EXCEPT !.pos = @ + 1, !.vals = Append(@, o)])
                               [] fr.inc ->
                                    Push(t, [fr EXCEPT !.pc = "s_incl", !.rv = o],
                                         [Frame("scan", Virt(c).target, "s_ensure") EXCEPT
                                            !.flt = line.key, !.use = "incl"])
                               [] OTHER ->
                                    WithTop(t, [fr EXCEPT !.pos = @ + 1,
                                       !.got = Append(@, [key |-> line.key,
                                                          slave |-> Encode(M2.heap, o)])])
    /\ UNCHANGED <<schema, file, tmpf, lock, nextKey, alive, crash, running, ops,
                   mainCtx, ctxs, codec>>

\* "async with collection.get_queryable() as context": the caller keeps the
\* context and calls its operations one after the other.
StartQueryable(t, c) ==
    /\ CanRun(t) /\ FirstIdle(t)
    /\ ops.scans < (IF t # 1 \/ Overlapped THEN MaxScans ELSE MaxSeqScans)
    /\ OpsLeft(t)
    /\ stack' = [stack EXCEPT ![t] = <<[Frame("scan", c, "s_ensure") EXCEPT !.use = "ctx"]>>]
    /\ ops' = [ops EXCEPT !.scans = @ + 1]
    /\ UNCHANGED <<schema, heap, masters, trackers, file, tmpf, lock, nextKey, done,
                   alive, crash, running, temps, closing, mainCtx, ctxs, codec>>

\* The filters a caller registers: lambdas over the entity's stored field.
Filters ==
    {[op |-> op, field |-> "val", value |-> 1, subs |-> <<>>] : op \in {"eq", "gt"}}

\* _Queryable.where (lines 13-15 and 22-23): the filter is appended.
Where(t, q) ==
    /\ CanRun(t) /\ AtPc(t, "scan", "q_idle")
    /\ Top(t).calls < MaxCalls
    /\ stack' = WithTop(t, [Top(t) EXCEPT !.filters = Append(@, q), !.calls = @ + 1])
    /\ UNCHANGED <<schema, heap, masters, trackers, file, tmpf, lock, nextKey, done,
                   alive, crash, running, ops, temps, closing, mainCtx, ctxs, codec>>

\* _Queryable.clear_filters (lines 25-26).
ClearFilters(t) ==
    /\ CanRun(t) /\ AtPc(t, "scan", "q_idle")
    /\ Top(t).calls < MaxCalls
    /\ stack' = WithTop(t, [Top(t) EXCEPT !.filters = <<>>, !.calls = @ + 1])
    /\ UNCHANGED <<schema, heap, masters, trackers, file, tmpf, lock, nextKey, done,
                   alive, crash, running, ops, temps, closing, mainCtx, ctxs, codec>>

\* "async for item in context": __aiter__ starts to read the snapshot.
Iterate(t) ==
    /\ CanRun(t) /\ AtPc(t, "scan", "q_idle")
    /\ Top(t).calls < MaxCalls
    /\ stack' = WithTop(t, [Top(t) EXCEPT !.pc = "q_iter", !.term = "iter", !.pos = 0,
                                          !.got = <<>>, !.calls = @ + 1])
    /\ UNCHANGED <<schema, heap, masters, trackers, file, tmpf, lock, nextKey, done,
                   alive, crash, running, ops, temps, closing, mainCtx, ctxs, codec>>

\* count_async(query), _queryable.py lines 241-255: a query that is given is
\* registered first (q = NoQuery: none given).
CountAsync(t, q) ==
    /\ CanRun(t) /\ AtPc(t, "scan", "q_idle")
    /\ Top(t).calls < MaxCalls
    /\ stack' = WithTop(t, [Top(t) EXCEPT
            !.filters = IF q = NoQuery THEN @ ELSE Append(@, q),
            !.pc = "q_iter", !.term = "count", !.pos = 0, !.cnt = 0, !.calls = @ + 1])
    /\ UNCHANGED <<schema, heap, masters, trackers, file, tmpf, lock, nextKey, done,
                   alive, crash, running, ops, temps, closing, mainCtx, ctxs, codec>>

\* _Queryable._check (lines 17-20): every registered filter holds for the
\* entity.
CheckFilters(fr, h, o) ==
    \A i \in 1..Len(fr.filters) : Check(fr.filters[i], h[o][fr.filters[i].field])

\* One line of the context's snapshot: decoded, tracked and yielded by
\* __aiter__ (lines 81-92, which consult no filter) to the loop of the
\* caller or of count_async, which counts the item if _check lets it
\* through; at the end of the lines the operation returns.
QueryableNext(t) ==
    /\ CanRun(t) /\ AtPc(t, "scan", "q_iter")
    /\ LET fr == Top(t)
           c == fr.col
           line == ScanSource(fr)[fr.pos + 1]
           M1 == Load(Mem, c, line)
           o == Len(M1.heap)
       IN  IF fr.pos >= Len(ScanSource(fr))
           THEN /\ stack' = WithTop(t, [fr EXCEPT !.pc = "q_idle"])
                /\ UNCHANGED <<heap, masters, trackers>>
           ELSE /\ heap' = M1.heap /\ masters' = M1.masters /\ trackers' = M1.trackers
                /\ stack' = WithTop(t, [fr EXCEPT
                      !.pos = @ + 1,
                      !.got = IF fr.term = "iter"
                              THEN Append(@, [key |-> line.key,
                                              slave |-> Encode(M1.heap, o)])
                              ELSE @,
                      !.cnt = IF fr.term = "count" /\ CheckFilters(fr, M1.heap, o)
                              THEN @ + 1 ELSE @])
    /\ UNCHANGED <<schema, file, tmpf, lock, nextKey, done, alive, crash, running,
                   ops, temps, closing, mainCtx, ctxs, codec>>

\* The "async with" block ends: __aexit__ closes the context (lines 100-101
\* and 113-119) and the snapshot is removed.
ExitQueryable(t) ==
    /\ CanRun(t) /\ AtPc(t, "scan", "q_idle")
    /\ stack' = [stack EXCEPT ![t] = ReturnStack(t, Top(t), None)]
    /\ done' = ReturnDone(t, Top(t))
    /\ temps' = [temps EXCEPT ![Top(t).col] = Removed(@)]
    /\ UNCHANGED <<schema, heap, masters, trackers, file, tmpf, lock, nextKey,
                   alive, crash, running, ops, closing, mainCtx, ctxs, codec>>

\* iterate with include(): get_queryable().include(selector) and its
\* __aenter__.
StartScanInclude(t, c) ==
    /\ CanRun(t) /\ FirstIdle(t)
    /\ IsVirtual(Virt(c))
    /\ ops.scans < (IF t # 1 \/ Overlapped THEN MaxScans ELSE MaxSeqScans)
    /\ OpsLeft(t)
    /\ stack' = [stack EXCEPT ![t] =
            <<[Frame("scan", c, "s_ensure") EXCEPT !.use = "user", !.inc = TRUE]>>]
    /\ ops' = [ops EXCEPT !.scans = @ + 1]
    /\ UNCHANGED <<schema, heap, masters, trackers, file, tmpf, lock, nextKey, done,
                   alive, crash, running,
                   temps, closing, mainCtx, ctxs, codec>>

\* load_virtual_props_async, line 671: the related entities found are put
\* into the item's virtual field, and the item is handed to the caller.
ScanIncluded(t) ==
    /\ CanRun(t)
    /\ AtPc(t, "scan", "s_incl_ret")
    /\ LET fr == Top(t)
           o == fr.rv
           line == ScanSource(fr)[fr.pos + 1]
       IN  /\ heap' = [heap EXCEPT ![o].kids = fr.vals]
           /\ stack' = WithTop(t, [fr EXCEPT !.pc = "s_iter", !.pos = @ + 1,
                            !.rv = None, !.vals = <<>>,
                            !.got = Append(@, [key |-> line.key, slave |-> Encode(heap, o)])])
    /\ UNCHANGED <<schema, masters, trackers, file, tmpf, lock, nextKey, done, alive,
                   crash, running, ops,
                   temps, closing, mainCtx, ctxs, codec>>

\* get_first_async returns from inside its "async for" (line 592): the
\* abandoned generator is closed by the event loop's asynchronous-generator
\* finalizer, in a task of its own, and only then is its snapshot removed.
Finalize(c) ==
    /\ alive
    /\ closing[c] > 0
    /\ closing' = [closing EXCEPT ![c] = @ - 1]
    /\ temps' = [temps EXCEPT ![c] = Removed(@)]
    /\ UNCHANGED <<schema, heap, masters, trackers, file, tmpf, lock, nextKey, stack, done,
                   alive, crash, running, ops, mainCtx, ctxs, codec>>

\* The frame of task t that is inside the critical section of c (0: none).
Holder(t, c) ==
    IF \E n \in 1..Len(stack[t]) : stack[t][n].holds /\ stack[t][n].col = c
    THEN CHOOSE n \in 1..Len(stack[t]) : stack[t][n].holds /\ stack[t][n].col = c
    ELSE 0

\* What the commit of frame fr leaves in the live file when it runs to its
\* end: the lines it found, without the deleted keys, with the updated keys
\* re-encoded in place, and the created entities after them.
CommitLine(c, m) ==
    LET l == Line(heap, masters, m)
    IN  IF Normalizes(Virt(c)) THEN [l EXCEPT !.slave.kids = <<>>] ELSE l
EntryOf(es, k) == CHOOSE e \in Range(es) : e.key = k
PostCommit(fr) ==
    LET p == fr.part
        kept == SelectSeq(fr.pre.lines, LAMBDA l : l.key \notin KeysOf(p.deleted))
    IN  [there |-> TRUE,
         lines |-> [i \in 1..Len(kept) |->
                      IF kept[i].key \in KeysOf(p.updated)
                      THEN CommitLine(fr.col, EntryOf(p.updated, kept[i].key).master)
                      ELSE kept[i]]
                   \o [i \in 1..Len(p.created) |-> CommitLine(fr.col, p.created[i].master)]]

\* The process is killed while a commit is under way: its memory is gone,
\* the disk stays as it is.
Kill ==
    /\ alive /\ \E t \in Tasks, c \in Cols : Holder(t, c) # 0
    /\ alive' = FALSE
    /\ crash' = [c \in Cols |->
            IF \E t \in Tasks : Holder(t, c) # 0
            THEN LET t == CHOOSE u \in Tasks : Holder(u, c) # 0
                     fr == stack[t][Holder(t, c)]
                 IN  [cut |-> TRUE, pre |-> fr.pre, post |-> PostCommit(fr)]
            ELSE NoCrash]
    /\ heap' = <<>> /\ masters' = <<>>
    /\ trackers' = [c \in Cols |-> <<>>]
    /\ lock' = [c \in Cols |-> None]
    /\ stack' = [t \in Tasks |-> <<>>]
    /\ done' = [t \in Tasks |-> InitDone]
    /\ nextKey' = 1 /\ running' = None
    /\ ops' = [adds |-> 0, deletes |-> 0, mutates |-> 0, attach |-> 0,
               commits |-> 0, scans |-> 0, counts |-> 0, drops |-> 0,
              replaces |-> 0]
    /\ closing' = [c \in Cols |-> 0]
    /\ mainCtx' = [c \in Cols |-> None]
    /\ ctxs' = <<>>
    /\ UNCHANGED <<schema, file, tmpf, temps, codec>>

Objs == 1..Len(heap)

Next ==
    \/ \E c \in Cols, n \in 0..MaxKids : Add(c, n)
    \/ \E o \in Objs : Delete(o)
    \/ \E o \in Objs, v \in Vals : Mutate(o, v)
    \/ \E p \in Objs, ch \in Objs : Attach(p, ch)
    \/ \E t \in Tasks, c \in Cols : StartCommit(t, c)
    \/ \E t \in Tasks, c \in Cols : StartScan(t, c)
    \/ \E t \in Tasks : Ensure(t)
    \/ \E t \in Tasks : Acquire(t)
    \/ \E t \in Tasks : Normalize(t)
    \/ \E t \in Tasks : NormFirstRet(t)
    \/ \E t \in Tasks : WriteLine(t)
    \/ \E t \in Tasks : RewriteOpen(t)
    \/ \E t \in Tasks : RewriteLine(t)
    \/ \E t \in Tasks : SwapRemove(t)
    \/ \E t \in Tasks : SwapRename(t)
    \/ \E t \in Tasks : Cascade(t)
    \/ \E t \in Tasks : CascadeCommit(t)
    \/ \E t \in Tasks : Finish(t)
    \/ \E t \in Tasks : ScanCopy(t)
    \/ \E t \in Tasks : ScanNext(t)
    \/ \E c \in Cols : Finalize(c)
    \/ Kill

Spec == Init /\ [][Next]_vars

\* The same program with the list-valued virtual field of A configured
\* delete_entity.
InitDeleteEntity == Init /\ schema.action = "delete_entity" /\ HasRefersTo(schema.virt["A"])
SpecDeleteEntity == InitDeleteEntity /\ [][Next]_vars

\* The same program with the list-valued virtual field of A configured
\* delete_reference.
InitDeleteReference ==
    Init /\ schema.action = "delete_reference" /\ HasRefersTo(schema.virt["A"])
SpecDeleteReference == InitDeleteReference /\ [][Next]_vars

\* ------------------------------------------------------------ count_async
\* count_async (lines 705-713) runs in a frame of kind "count"; frame.i is
\* the context its "async with self" made.

\* os.remove(self._file_path) of context u, then line 159 and the end of the
\* call; a file that is not there makes os.remove raise, before line 159.
CountRemove(t, fr, ok, u, cx) ==
    IF cx[u].copied /\ ~cx[u].removed
    THEN /\ temps' = [temps EXCEPT ![fr.col] = Removed(@)]
         /\ ctxs' = [cx EXCEPT ![u].removed = TRUE]
         /\ mainCtx' = [mainCtx EXCEPT ![fr.col] = None]
         /\ stack' = [stack EXCEPT ![t] = <<>>]
         /\ done' = [done EXCEPT ![t] = Outcome(fr, ok)]
    ELSE /\ ctxs' = cx
         /\ stack' = [stack EXCEPT ![t] = <<>>]
         /\ done' = [done EXCEPT ![t] = Outcome(fr, FALSE)]
         /\ UNCHANGED <<temps, mainCtx>>

\* AbstractCollection.__aexit__ (lines 155-159): whatever context
\* _main_iter_ctx names now is closed, up to the await of its file's close.
CountExit(t, fr, ok) ==
    LET u == mainCtx[fr.col]
    IN  IF u = None \/ ctxs[u].closed
        THEN /\ mainCtx' = [mainCtx EXCEPT ![fr.col] = None]
             /\ stack' = [stack EXCEPT ![t] = <<>>]
             /\ done' = [done EXCEPT ![t] = Outcome(fr, ok)]
             /\ UNCHANGED <<temps, ctxs>>
        ELSE IF ctxs[u].opened
        THEN /\ stack' = WithTop(t, [fr EXCEPT !.pc = "c_close", !.rv = u,
                                               !.site = IF ok THEN "ret" ELSE "raise"])
             /\ UNCHANGED <<temps, ctxs, mainCtx, done>>
        ELSE CountRemove(t, fr, ok, u, ctxs)

StartCount(t, c) ==
    /\ CanRun(t) /\ FirstIdle(t)
    /\ ops.counts < MaxCounts
    /\ OpsLeft(t)
    /\ stack' = [stack EXCEPT ![t] = <<Frame("count", c, "c_ensure")>>]
    /\ ops' = [ops EXCEPT !.counts = @ + 1]
    /\ UNCHANGED <<schema, heap, masters, trackers, file, tmpf, lock, nextKey, done,
                   alive, crash, running, temps, closing, mainCtx, ctxs, codec>>

\* Line 708, then "async with self": __aenter__ (lines 151-153) makes a
\* context and stores it in the collection's _main_iter_ctx; then iter_lines
\* (lines 105-106) finds the context not initialized, and its __aenter__
\* copies the live file under the lock, which the task has just released.
\* The task is first suspended in the aiofiles.open that follows.
CountEnsure(t) ==
    /\ CanRun(t)
    /\ AtPc(t, "count", "c_ensure")
    /\ LockFree(Top(t).col)
    /\ LET fr == Top(t)
           f == IF file[fr.col] = Missing THEN Empty ELSE file[fr.col]
           u == Len(ctxs) + 1
       IN  /\ file' = [file EXCEPT ![fr.col] = f]
           /\ ctxs' = Append(ctxs, [NoCtx EXCEPT !.col = fr.col, !.copied = TRUE])
           /\ mainCtx' = [mainCtx EXCEPT ![fr.col] = u]
           /\ temps' = [temps EXCEPT ![fr.col] = @ + 1]
           /\ stack' = WithTop(t, [fr EXCEPT !.pc = "c_open", !.i = u, !.snap = f,
                                             !.atcopy = f])
    /\ UNCHANGED <<schema, heap, masters, trackers, tmpf, lock, nextKey, done, alive, crash,
                   running, ops, closing, codec>>

\* iter_lines, lines 108-109: aiofiles.open of the snapshot, which fails if
\* another task's __aexit__ has removed it.
CountOpen(t) ==
    /\ CanRun(t)
    /\ AtPc(t, "count", "c_open")
    /\ LET fr == Top(t)
       IN  IF ctxs[fr.i].removed
           THEN CountExit(t, fr, FALSE)
           ELSE /\ ctxs' = [ctxs EXCEPT ![fr.i].opened = TRUE]
                /\ stack' = WithTop(t, [fr EXCEPT !.pc = "c_iter"])
                /\ UNCHANGED <<temps, mainCtx, done>>
    /\ UNCHANGED <<schema, heap, masters, trackers, file, tmpf, lock, nextKey, alive,
                   crash, running, ops, closing, codec>>

\* Lines 710-713: one line read and counted; reading a file that another
\* task's __aexit__ has closed raises; at the end the count is returned
\* through __aexit__.
CountNext(t) ==
    /\ CanRun(t)
    /\ AtPc(t, "count", "c_iter")
    /\ LET fr == Top(t)
       IN  IF ctxs[fr.i].closed
           THEN CountExit(t, fr, FALSE)
           ELSE IF fr.pos >= Len(fr.snap.lines)
           THEN CountExit(t, fr, TRUE)
           ELSE /\ stack' = WithTop(t, [fr EXCEPT !.pos = @ + 1, !.cnt = @ + 1])
                /\ UNCHANGED <<temps, ctxs, mainCtx, done>>
    /\ UNCHANGED <<schema, heap, masters, trackers, file, tmpf, lock, nextKey, alive,
                   crash, running, ops, closing, codec>>

\* close (lines 113-119) after the await of the file's close: _closed is
\* set and the snapshot is removed.
CountClose(t) ==
    /\ CanRun(t)
    /\ AtPc(t, "count", "c_close")
    /\ LET fr == Top(t)
       IN  CountRemove(t, fr, fr.site = "ret", fr.rv,
                       [ctxs EXCEPT ![fr.rv].closed = TRUE])
    /\ UNCHANGED <<schema, heap, masters, trackers, file, tmpf, lock, nextKey, alive,
                   crash, running, ops, closing, codec>>

\* Task.cancel() on a task suspended in a scan or a count: CancelledError
\* leaves through the "async with" of each of its frames.
Cancel(t) ==
    /\ CanRun(t) /\ running = None
    /\ stack[t] # <<>>
    /\ \A n \in 1..Len(stack[t]) : stack[t][n].kind \in {"scan", "count"}
    /\ ~AtPc(t, "count", "c_close")
    /\ IF Top(t).kind = "count"
       THEN IF Top(t).pc = "c_ensure"
            THEN /\ stack' = [stack EXCEPT ![t] = <<>>]
                 /\ done' = RaiseDone(t)
                 /\ UNCHANGED <<temps, ctxs, mainCtx>>
            ELSE CountExit(t, Top(t), FALSE)
       ELSE /\ stack' = [stack EXCEPT ![t] = <<>>]
            /\ done' = RaiseDone(t)
            /\ temps' = TempsAfterRaise(t)
            /\ UNCHANGED <<ctxs, mainCtx>>
    /\ UNCHANGED <<schema, heap, masters, trackers, file, tmpf, lock, nextKey, alive,
                   crash, running, ops, closing, codec>>

\* The callers that add and commit, then iterate, then count, and cancel
\* what they have started, in a process that is not killed.
NextCount ==
    \/ \E c \in Cols, n \in 0..MaxKids : ops.scans = 0 /\ ops.counts = 0 /\ Add(c, n)
    \/ \E t \in Tasks, c \in Cols : ops.scans = 0 /\ ops.counts = 0 /\ StartCommit(t, c)
    \/ \E t \in Tasks, c \in Cols : ops.counts = 0 /\ StartScan(t, c)
    \/ \E t \in Tasks, c \in Cols : StartCount(t, c)
    \/ \E t \in Tasks : Cancel(t)
    \/ \E t \in Tasks : Ensure(t)
    \/ \E t \in Tasks : Acquire(t)
    \/ \E t \in Tasks : Normalize(t)
    \/ \E t \in Tasks : WriteLine(t)
    \/ \E t \in Tasks : Finish(t)
    \/ \E t \in Tasks : ScanCopy(t)
    \/ \E t \in Tasks : ScanNext(t)
    \/ \E t \in Tasks : CountEnsure(t)
    \/ \E t \in Tasks : CountOpen(t)
    \/ \E t \in Tasks : CountNext(t)
    \/ \E t \in Tasks : CountClose(t)
SpecCount == InitDeleteReference /\ [][NextCount]_vars

\* ------------------------------------------------------- drop and purge
\* drop_async (lines 595-600): under the lock, the live file is removed if
\* it is there.
Drop(t, c) ==
    /\ CanRun(t) /\ FirstIdle(t)
    /\ ops.drops < MaxDrops
    /\ OpsLeft(t)
    /\ LockFree(c)
    /\ file' = [file EXCEPT ![c] = Missing]
    /\ done' = [done EXCEPT ![t] = [kind |-> "drop", col |-> c, ok |-> TRUE, cnt |-> 0]]
    /\ ops' = [ops EXCEPT !.drops = @ + 1]
    /\ UNCHANGED <<schema, heap, masters, trackers, tmpf, lock, nextKey, stack, alive,
                   crash, running, temps, closing, mainCtx, ctxs, codec>>

\* purge_async (lines 700-703): under the lock, the live file is removed;
\* os.remove raises if it is not there.
Purge(t, c) ==
    /\ CanRun(t) /\ FirstIdle(t)
    /\ ops.drops < MaxDrops
    /\ OpsLeft(t)
    /\ LockFree(c)
    /\ file' = [file EXCEPT ![c] = Missing]
    /\ done' = [done EXCEPT ![t] =
            [kind |-> "purge", col |-> c, ok |-> file[c].there, cnt |-> 0]]
    /\ ops' = [ops EXCEPT !.drops = @ + 1]
    /\ UNCHANGED <<schema, heap, masters, trackers, tmpf, lock, nextKey, stack, alive,
                   crash, running, temps, closing, mainCtx, ctxs, codec>>

\* The same program in a process that is not killed, for callers that also
\* drop and purge.
NextDrop ==
    \/ \E c \in Cols, n \in 0..MaxKids : Add(c, n)
    \/ \E o \in Objs : Delete(o)
    \/ \E o \in Objs, v \in Vals : Mutate(o, v)
    \/ \E p \in Objs, ch \in Objs : Attach(p, ch)
    \/ \E t \in Tasks, c \in Cols : StartCommit(t, c)
    \/ \E t \in Tasks, c \in Cols : StartScan(t, c)
    \/ \E t \in Tasks, c \in Cols : Drop(t, c)
    \/ \E t \in Tasks, c \in Cols : Purge(t, c)
    \/ \E t \in Tasks : Ensure(t)
    \/ \E t \in Tasks : Acquire(t)
    \/ \E t \in Tasks : Normalize(t)
    \/ \E t \in Tasks : NormFirstRet(t)
    \/ \E t \in Tasks : WriteLine(t)
    \/ \E t \in Tasks : RewriteOpen(t)
    \/ \E t \in Tasks : RewriteLine(t)
    \/ \E t \in Tasks : SwapRemove(t)
    \/ \E t \in Tasks : SwapRename(t)
    \/ \E t \in Tasks : Cascade(t)
    \/ \E t \in Tasks : CascadeCommit(t)
    \/ \E t \in Tasks : Finish(t)
    \/ \E t \in Tasks : ScanCopy(t)
    \/ \E t \in Tasks : ScanNext(t)
    \/ \E c \in Cols : Finalize(c)
SpecDrop == InitDeleteReference /\ [][NextDrop]_vars

\* The same program for entity types whose related type has no reference
\* property: no value is ever moved to the related collection, so the steps
\* of a nested commit are never taken.
NextNoRef ==
    \/ \E c \in Cols, n \in 0..MaxKids : Add(c, n)
    \/ \E o \in Objs : Delete(o)
    \/ \E o \in Objs, v \in Vals : Mutate(o, v)
    \/ \E p \in Objs, ch \in Objs : Attach(p, ch)
    \/ \E t \in Tasks, c \in Cols : StartCommit(t, c)
    \/ \E t \in Tasks, c \in Cols : StartScan(t, c)
    \/ \E t \in Tasks : Ensure(t)
    \/ \E t \in Tasks : Acquire(t)
    \/ \E t \in Tasks : Normalize(t)
    \/ \E t \in Tasks : WriteLine(t)
    \/ \E t \in Tasks : RewriteOpen(t)
    \/ \E t \in Tasks : RewriteLine(t)
    \/ \E t \in Tasks : SwapRemove(t)
    \/ \E t \in Tasks : SwapRename(t)
    \/ \E t \in Tasks : Cascade(t)
    \/ \E t \in Tasks : Finish(t)
    \/ \E t \in Tasks : ScanCopy(t)
    \/ \E t \in Tasks : ScanNext(t)
    \/ Kill
SpecNoRef == InitNoRef /\ [][NextNoRef]_vars

\* The same program, with the list-valued virtual field of A, for callers
\* that also iterate with include().
NextInclude ==
    \/ Next
    \/ \E t \in Tasks, c \in Cols : StartScanInclude(t, c)
    \/ \E t \in Tasks : ScanIncluded(t)
SpecInclude == InitDeleteReference /\ [][NextInclude]_vars

\* ================================================================ claims
Frames == { <<t, n>> \in Tasks \X (1..(MaxOps + 4)) : n <= Len(stack[t]) }
Fr(x) == stack[x[1]][x[2]]
Commits == { x \in Frames : Fr(x).kind = "commit" }
Scans == { x \in Frames : Fr(x).kind = "scan" }
\* No other task is committing collection c.
AloneOn(x) == \A y \in Commits : y[1] # x[1] => Fr(y).col # Fr(x).col
Lines(f) == Range(f.lines)

\* C1: after a successful commit with no other commit on the collection in
\* progress, the live file is the lines found at the start, in their order,
\* without the lines of deleted keys (no blank line in their place), with
\* the lines of modified keys re-encoded in place, every other line as it
\* was, followed by one line per created entity.
C1_CommitResult ==
    \A x \in Commits :
        Fr(x).pc = "fin" /\ AloneOn(x) => file[Fr(x).col] = PostCommit(Fr(x))

\* a commit that has dropped the line of a deleted key and kept another line
C1_Witness ==
    \E x \in Commits :
        /\ Fr(x).pc = "fin" /\ AloneOn(x)
        /\ \E d \in KeysOf(Fr(x).part.deleted) : d \in KeysOf(Fr(x).pre.lines)
        /\ Len(Fr(x).pre.lines) >= 2
        /\ Len(file[Fr(x).col].lines) = Len(Fr(x).pre.lines) - 1

\* C2: a scan yields exactly the records the live file held at the scan's
\* copy step, whatever commits complete while the scan is in progress.
C2_ScanSeesSnapshot ==
    \A x \in Scans :
        Fr(x).use = "user" /\ Fr(x).pc = "s_iter" =>
            /\ Fr(x).pos <= Len(Fr(x).atcopy.lines)
            /\ Fr(x).got = SubSeq(Fr(x).atcopy.lines, 1, Fr(x).pos)

\* a scan that has yielded every record of its copy although the live file
\* has changed since
C2_Witness ==
    \E x \in Scans :
        /\ Fr(x).use = "user" /\ Fr(x).pc = "s_iter"
        /\ Fr(x).pos = Len(Fr(x).atcopy.lines) /\ Fr(x).pos >= 1
        /\ Fr(x).got = Fr(x).atcopy.lines
        /\ file[Fr(x).col] # Fr(x).atcopy
        /\ file[Fr(x).col].there

\* C3: a kill between the steps of a commit leaves the live file either as
\* it was before the commit or as the commit leaves it, never missing and
\* never in between.
C3_KillLeavesPreOrPost ==
    ~alive => \A c \in Cols :
        crash[c].cut => file[c] = crash[c].pre \/ file[c] = crash[c].post

\* C3, the half of it about the file being missing
C3_KillNeverMissing ==
    ~alive => \A c \in Cols : crash[c].cut => file[c].there

\* C4: no key is on two lines of a collection's file, also when two tasks
\* commit the same pending changes concurrently.
C4_KeyOnOneLine ==
    \A c \in Cols : \A i, j \in 1..Len(file[c].lines) :
        file[c].lines[i].key = file[c].lines[j].key => i = j

\* C5: at most one task at a time is inside the critical section (append,
\* rewrite, swap) of a collection.
Inside(c) == { x \in Commits : Fr(x).col = c /\ Fr(x).holds }
C5_OneInside == \A c \in Cols : Cardinality(Inside(c)) <= 1

\* one task is inside the critical section, another waits for the lock
C5_Witness ==
    \E x, y \in Commits :
        /\ x[1] # y[1] /\ Fr(x).col = Fr(y).col
        /\ Fr(x).holds /\ Fr(x).pc \in {"write", "rw_line", "rename"}
        /\ Fr(y).pc = "acq"

\* C6: while a nested commit on the related collection runs, the committing
\* task does not hold the lock of the parent collection.
C6_ParentLockReleased ==
    \A x, y \in Commits :
        x[1] = y[1] /\ x[2] < y[2] => ~Fr(x).holds

\* C7: no commit hangs: a task never waits for a lock that can only be
\* released by a task that is itself waiting for a lock the first one holds.
WaitsFor(t) ==
    IF stack[t] # <<>> /\ Top(t).pc \in {"ensure", "acq", "s_ensure", "s_copy"}
    THEN lock[Top(t).col] ELSE None
C7_NoHang ==
    \A t \in Tasks :
        WaitsFor(t) # None => WaitsFor(t) # t /\ WaitsFor(WaitsFor(t)) # t

\* two tasks, each inside the critical section of one collection and waiting
\* for the lock of the other
C7_MutualWait ==
    \E t, u \in Tasks : t # u /\ WaitsFor(t) = u /\ WaitsFor(u) = t

\* C8: after a commit has written a parent record, every value its virtual
\* field held has the parent's key as reference and is a record of the
\* related collection.
Persisted(c, o) ==
    \E m \in 1..Len(masters) :
        /\ masters[m].slave = o
        /\ [key |-> masters[m].id, slave |-> Encode(heap, o)] \in Lines(file[c])
C8_ValuesReferenceAndPersist ==
    \A x \in Commits :
        Fr(x).pc = "fin" =>
            \A n \in 1..Len(Fr(x).normed) : \A i \in 1..Len(Fr(x).normed[n].vals) :
                /\ heap[Fr(x).normed[n].vals[i]].ref = masters[Fr(x).normed[n].master].id
                /\ Persisted(Virt(Fr(x).col).target, Fr(x).normed[n].vals[i])

\* C9: no line of a collection's file carries the related entities of a
\* virtual field.
C9_NothingInline ==
    \A c \in Cols : \A l \in Lines(file[c]) : l.slave.kids = <<>>

\* C10: with the virtual field of A configured delete_entity, once a commit
\* that deletes the persisted A record k is through, the related collection
\* holds no record referring to k, and its records that refer elsewhere are
\* all still there, unchanged.  (The commit is the only operation running
\* and nothing else is pending on the related collection.)
Sequential == ~Overlapped
DeletedKeys(fr) == KeysOf(fr.part.deleted) \cap KeysOf(fr.pre.lines)
C10_Case(x) ==
    /\ x[2] = 1 /\ Fr(x).pc = "fin" /\ Fr(x).col = "A"
    /\ schema.action = "delete_entity"
    /\ DeletedKeys(Fr(x)) # {}
    /\ Sequential
C11_Case(x) ==
    /\ x[2] = 1 /\ Fr(x).pc = "fin" /\ Fr(x).col = "A"
    /\ schema.action = "delete_reference"
    /\ DeletedKeys(Fr(x)) # {}
    /\ Sequential
C12_ReturnsTrackerCount ==
    \A x \in Commits :
        Fr(x).pc = "fin" /\ AloneOn(x) =>
            Fr(x).cnt = Len(Fr(x).part.created) + Len(Fr(x).part.updated)
                            + Len(Fr(x).part.deleted)

\* C12: a commit returns the number of records it changed: one per tracker
\* in state create, and one per line of the file whose key belongs to a
\* tracker in state delete or to a modified tracker in state update.
ChangedLines(fr) ==
    { i \in 1..Len(fr.pre.lines) :
        fr.pre.lines[i].key \in KeysOf(fr.part.deleted) \cup KeysOf(fr.part.updated) }
C12_ReturnsChangeCount ==
    \A x \in Commits :
        Fr(x).pc = "fin" /\ AloneOn(x) =>
            Fr(x).cnt = Len(Fr(x).part.created) + Cardinality(ChangedLines(Fr(x)))

\* a commit that created a record and had a tracker in state delete whose key
\* has no line
C12_Witness ==
    \E x \in Commits :
        /\ Fr(x).pc = "fin" /\ AloneOn(x)
        /\ Fr(x).part.created # <<>>
        /\ \E d \in KeysOf(Fr(x).part.deleted) : d \notin KeysOf(Fr(x).pre.lines)
        /\ Fr(x).cnt = Len(Fr(x).part.created)

\* C13: a commit on a tracker table with no tracker in state create, none in
\* state delete and no modified one in state update returns 0 and does no
\* file I/O: the live file and the rewrite file stay as they are, the lock
\* is not taken, and no commit ever gets to its I/O steps without a change
\* to write.
NoChange(c) ==
    \A i \in 1..Len(trackers[c]) :
        /\ trackers[c][i].mode = "update"
        /\ Encode(heap, masters[trackers[c][i].master].slave) = trackers[c][i].init
HasChange(p) == p.created # <<>> \/ p.updated # <<>> \/ p.deleted # <<>>
C13_NothingToDoNoIO ==
    /\ [](\A x \in Commits : HasChange(Fr(x).part))
    /\ [][\A t \in Tasks, c \in Cols :
            StartCommit(t, c) /\ NoChange(c) =>
                /\ file' = file /\ tmpf' = tmpf /\ lock' = lock
                /\ stack'[t] = <<>>
                /\ done'[t] = [kind |-> "commit", col |-> c, ok |-> TRUE, cnt |-> 0]]_vars

\* a commit has returned 0 on a collection whose only trackers are those of
\* loaded, unmodified entities
C13_Witness ==
    \E t \in Tasks :
        /\ done[t] = [kind |-> "commit", col |-> done[t].col, ok |-> TRUE, cnt |-> 0]
        /\ stack[t] = <<>>
        /\ trackers[done[t].col] # <<>> /\ NoChange(done[t].col)

\* C14: tracker state transitions.  A tracker that add() creates is in state
\* create, one that a scan creates is in state update; the state of a
\* tracker changes only to delete, by delete(); and a tracker leaves the
\* table only in a commit of its collection.
TrackerOf(trs, k) == CHOOSE tr \in Range(trs) : tr.key = k
Fresh(c) == { tr \in Range(trackers'[c]) : tr.key \notin KeysOf(trackers[c]) }
Committing(c) == \E t \in Tasks : AtPc(t, "commit", "fin") /\ Top(t).col = c
C14_TrackerTransitions ==
    [][alive' =>
        \A c \in Cols :
            /\ (\E n \in 0..MaxKids : Add(c, n)) =>
                    Fresh(c) # {} /\ \A tr \in Fresh(c) : tr.mode = "create"
            /\ (\E t \in Tasks : ScanNext(t) /\ Top(t).use = "user") =>
                    \A tr \in Fresh(c) : tr.mode = "update"
            /\ \A tr \in Range(trackers[c]) :
                    IF tr.key \in KeysOf(trackers'[c])
                    THEN \/ TrackerOf(trackers'[c], tr.key).mode = tr.mode
                         \/ /\ TrackerOf(trackers'[c], tr.key).mode = "delete"
                            /\ \/ \E o \in Objs : Delete(o)
                               \/ \E t \in Tasks : ScanNext(t) /\ Top(t).use = "del"
                    ELSE Committing(c)]_vars

\* C15: when a commit returns, every tracker of its change set (create,
\* delete, modified update) is out of the tracker table, also a tracker
\* whose change wrote nothing to the file.
Succeeds(t) == stack'[t] # <<>> \/ done'[t].ok
C15_CommittedTrackersRemoved ==
    [][\A t \in Tasks :
          Finish(t) /\ Succeeds(t) =>
              \A k \in Range(CommittedKeys(Top(t).part)) :
                  k \notin KeysOf(trackers'[Top(t).col])]_vars

\* a commit has returned after a delete of an entity that had no line: the
\* file is there and empty, and the tracker table is empty
C15_Witness ==
    \E t \in Tasks :
        /\ done[t] = [kind |-> "commit", col |-> done[t].col, ok |-> TRUE, cnt |-> 0]
        /\ stack[t] = <<>>
        /\ ops.adds = 1 /\ ops.deletes = 1 /\ ops.commits = 1 /\ TotalOps = 3
        /\ file[done[t].col] = Empty
        /\ trackers[done[t].col] = <<>>

\* C16: delete() of an entity that has no tracker in the tracker table of
\* its collection fails and changes neither the tracker table nor the file.
Untracked(o) ==
    heap[o].tid = None \/ heap[o].tid \notin KeysOf(trackers[heap[o].type])
C16_DeleteUntrackedFails ==
    [][\A o \in Objs :
          Delete(o) /\ Untracked(o) =>
              /\ ~done'[1].ok
              /\ trackers' = trackers /\ file' = file /\ tmpf' = tmpf
              /\ heap' = heap /\ masters' = masters]_vars

\* delete() has failed on an entity whose tracker a commit had discarded
C16_Witness ==
    /\ done[1].kind = "delete" /\ ~done[1].ok
    /\ ops.commits >= 1
    /\ \E o \in Objs : heap[o].type = done[1].col /\ heap[o].tid = None
    /\ file[done[1].col].lines # <<>>
    /\ trackers[done[1].col] = <<>>

\* C17: add(), delete() and the assignment of fields do no file I/O: the
\* live file and the rewrite file are as before, so that until a commit is
\* called the files hold no record and a scan yields none of the pending
\* changes.
CallerStep ==
    \/ \E c \in Cols, n \in 0..MaxKids : Add(c, n)
    \/ \E o \in Objs : Delete(o)
    \/ \E o \in Objs, v \in Vals : Mutate(o, v)
    \/ \E p \in Objs, ch \in Objs : Attach(p, ch)
Observable ==
    /\ alive /\ Sequential
    /\ \/ stack[1] = <<>>
       \/ Len(stack[1]) = 1 /\ AtPc(1, "scan", "s_iter") /\ Top(1).use = "user"
Untouched == ops.mutates = 0 /\ ops.attach = 0
C18_ModifiedIffMutated ==
    /\ [](Observable /\ Untouched =>
            \A c \in Cols : \A tr \in Range(trackers[c]) :
                tr.mode = "update" => ~Modified(heap, masters, tr))
    /\ [][\A o \in 1..Len(heap) : \A v \in 0..MaxVal :
            LET c == heap[o].type IN
            Mutate(o, v) /\ HasTracker(trackers[c], heap, o) =>
                LET tr == TrackerOf(trackers[c], heap[o].tid) IN
                /\ trackers' = trackers
                /\ (masters[tr.master].slave = o /\ ~Modified(heap, masters, tr)
                        => Modified(heap', masters', tr))]_vars
\* A caller that has only added, committed and iterated with include()
\* holds a loaded entity that reports modified.
C18_IncludedReportsModified ==
    /\ Observable /\ Untouched /\ ops.deletes = 0
    /\ \E tr \in Range(trackers["A"]) :
            tr.mode = "update" /\ Modified(heap, masters, tr)

\* C19: a snapshot temp file lives only as long as the scan that made it:
\* at any moment a collection has no more snapshot files on disk than scans
\* that are running or still being closed by the event loop, so that once
\* every scan of the collection has ended (normally, by an early return, by
\* an exception or by cancellation) none of its snapshot files remains.
ActiveScans(c) ==
    Cardinality({ x \in Frames : Fr(x).kind \in {"scan", "count"} /\ Fr(x).col = c })
C19_TempsRemoved ==
    alive => \A c \in Cols : temps[c] <= ActiveScans(c) + closing[c]
\* Two overlapping count_async calls have ended and a snapshot is left.
C19_Leaked ==
    /\ alive
    /\ \A t \in Tasks : stack[t] = <<>>
    /\ \E c \in Cols : temps[c] > 0 /\ closing[c] = 0

\* C20: a scan holds the collection's lock only inside its copy step: the
\* lock is never held by anything but a commit inside its critical section,
\* and a commit waiting for the lock of a collection that no commit holds
\* can take it at once, whatever scans of that collection are under way.
InCritical(c) == \E w \in Tasks : Holder(w, c) # 0
C20_ScanHoldsNoLock ==
    /\ \A c \in Cols : lock[c] # None => Holder(lock[c], c) # 0
    /\ \A t \in Tasks :
            AtPc(t, "commit", "acq") /\ CanRun(t) /\ ~InCritical(Top(t).col)
                => ENABLED Acquire(t)
\* A commit of one task has changed the file and ended while another task's
\* scan of the same collection, copied before that change, is still reading.
C20_Witness ==
    \E x \in Scans : \E t \in Tasks :
        /\ t # x[1] /\ x[2] = 1
        /\ Fr(x).pc = "s_iter" /\ Fr(x).use = "user"
        /\ done[t] = [kind |-> "commit", col |-> Fr(x).col, ok |-> TRUE, cnt |-> done[t].cnt]
        /\ done[t].cnt > 0
        /\ stack[t] = <<>>
        /\ file[Fr(x).col] # Fr(x).atcopy
        /\ Fr(x).pos < Len(Fr(x).snap.lines)

\* C21: whenever a scan's copy step or a commit's rewrite step reads the
\* live file, the file is there, whatever drop or purge does meanwhile to
\* the same collection.
C21_ReadsExistingFile ==
    [][\A t \in Tasks :
          (ScanCopy(t) \/ RewriteOpen(t)) => file[Top(t).col].there]_vars
\* A scan has passed its existence check and another task's drop or purge
\* of the same collection has ended before the scan's copy.
C21_DroppedBeforeRead ==
    \E t \in Tasks, u \in Tasks :
        /\ t # u /\ alive /\ running = None
        /\ AtPc(t, "scan", "s_copy")
        /\ done[u].kind \in {"drop", "purge"} /\ done[u].col = Top(t).col /\ done[u].ok
        /\ ~file[Top(t).col].there /\ LockFree(Top(t).col)

\* C22: at every step of a commit before its remove+rename swap, and so
\* when the commit fails at such a step, every line the live file had when
\* the commit entered its critical section is still there, unchanged and in
\* place; whatever else the file holds are lines of the commit's created
\* entities.
PreSwap == {"norm", "norm_first", "norm_sub", "write", "rw_open", "rw_line", "swap"}
Fails(t) ==
    /\ alive' /\ stack[t] # <<>> /\ stack'[t] = <<>>
    /\ done'[t].kind = "commit" /\ ~done'[t].ok
KeepsLines(fr, f) ==
    /\ f.there
    /\ Len(f.lines) >= Len(fr.pre.lines)
    /\ SubSeq(f.lines, 1, Len(fr.pre.lines)) = fr.pre.lines
    /\ \A n \in (Len(fr.pre.lines) + 1)..Len(f.lines) :
            f.lines[n].key \in KeysOf(fr.part.created)
C22_FailureKeepsLines ==
    /\ [](alive => \A x \in Commits :
            Fr(x).holds /\ Fr(x).pc \in PreSwap => KeepsLines(Fr(x), file[Fr(x).col]))
    /\ [][\A t \in Tasks :
            Fails(t) /\ stack[t][1].holds /\ stack[t][1].pc \in PreSwap =>
                KeepsLines(stack[t][1], file'[stack[t][1].col])]_vars
\* A commit has failed during its rewrite: its rewrite file is left behind,
\* nobody is committing the collection, and the live file has its records.
C22_Witness ==
    \E t \in Tasks :
        /\ alive /\ stack[t] = <<>>
        /\ done[t].kind = "commit" /\ ~done[t].ok
        /\ tmpf[done[t].col] # Missing
        /\ file[done[t].col].lines # <<>>
        /\ \A u \in Tasks : Holder(u, done[t].col) = 0

\* C23: a commit of an entity whose virtual field, single-valued or
\* list-valued, holds a value of a type without the reference field fails
\* before the entity's record is written: the normalization step of such an
\* entity fails, and no record of an entity holding such a value is written.
HoldsUnreferable(fr) ==
    /\ IsVirtual(Virt(fr.col)) /\ ~HasReferenceProp(Virt(fr.col))
    /\ heap[masters[NormEntry(fr).master].slave].kids # <<>>
C23_MissingReferenceFails ==
    [][\A t \in Tasks :
        /\ Normalize(t) /\ HoldsUnreferable(Top(t)) => Fails(t)
        /\ WriteLine(t) => ~HoldsUnreferable(Top(t))]_vars
\* The record of an entity whose single-valued virtual field holds such a
\* value is in the live file.
C23_Written ==
    /\ alive /\ ~schema.refprop
    /\ \E n \in 1..Len(file["A"].lines) : file["A"].lines[n].slave.kids # <<>>


\* ---------------------------------------------------------------------------
\* The program of a caller that adds, reads, changes and replaces entities
\* without related entities, and commits, with entity types whose virtual
\* field is a list.
\* ---------------------------------------------------------------------------
NextReplace ==
    \/ Add("A", 0)
    \/ \E o \in Objs : Delete(o)
    \/ \E o \in Objs, v \in Vals : Mutate(o, v)
    \/ \E o \in Objs, v \in Vals : Replace(o, v)
    \/ \E t \in Tasks : StartCommit(t, "A")
    \/ \E t \in Tasks : StartScan(t, "A")
    \/ \E t \in Tasks : Ensure(t)
    \/ \E t \in Tasks : Acquire(t)
    \/ \E t \in Tasks : Normalize(t)
    \/ \E t \in Tasks : WriteLine(t)
    \/ \E t \in Tasks : RewriteOpen(t)
    \/ \E t \in Tasks : RewriteLine(t)
    \/ \E t \in Tasks : SwapRemove(t)
    \/ \E t \in Tasks : SwapRename(t)
    \/ \E t \in Tasks : Cascade(t)
    \/ \E t \in Tasks : Finish(t)
    \/ \E t \in Tasks : ScanCopy(t)
    \/ \E t \in Tasks : ScanNext(t)

SpecReplace == InitDeleteReference /\ [][NextReplace]_vars

\* C26: replace(old, new) on a tracked old binds old's tracker to new: the
\* tracker table keeps its keys, modes and order, the master entity of old's
\* key now holds new, new carries the key as its tracking id and no file is
\* touched; the commit that follows leaves exactly one line with that key,
\* holding the encoding of new, and adds or removes no line for it.  On an
\* old that is not tracked the call fails and leaves the tracker table, the
\* master entities and the files as they were.
ReplacedAt(x) ==
    /\ x = <<1, 1>> /\ Fr(x).pc = "fin" /\ Sequential
    /\ done[1].kind = "replace" /\ done[1].ok /\ done[1].col = Fr(x).col
    /\ TrackerOf(trackers[Fr(x).col], heap[done[1].cnt].tid).mode # "delete"

C26_ReplaceRebinds ==
    /\ [][\A old \in Objs, v \in Vals :
            Replace(old, v) =>
                LET new == Len(heap) + 1
                    c == heap[old].type
                IN  /\ trackers' = trackers /\ file' = file /\ tmpf' = tmpf
                    /\ done'[1].ok = ~Untracked(old)
                    /\ Untracked(old) => masters' = masters
                    /\ ~Untracked(old) =>
                          /\ done'[1].cnt = new
                          /\ heap'[new].tid = heap[old].tid
                          /\ masters' = [masters EXCEPT
                                ![TrackerOf(trackers[c], heap[old].tid).master].slave = new]]_vars
    /\ [](\A x \in Commits :
            ReplacedAt(x) =>
                LET c == Fr(x).col
                    new == done[1].cnt
                    k == heap[new].tid
                    f == file[c]
                IN  /\ \E i \in 1..Len(f.lines) :
                          /\ f.lines[i] = [key |-> k, slave |-> Encode(heap, new)]
                          /\ \A j \in 1..Len(f.lines) : f.lines[j].key = k => j = i
                    /\ Len(f.lines) = Len(Fr(x).pre.lines) + Len(Fr(x).part.created)
                                        - Cardinality(DeletedKeys(Fr(x))))

\* a commit has rewritten the line of a key whose tracker was bound to
\* another entity by replace: the line holds the new entity's value, which
\* differs from the one the line held before.
C26_Witness ==
    \E x \in Commits :
        /\ ReplacedAt(x)
        /\ Fr(x).modified
        /\ \E i \in 1..Len(Fr(x).pre.lines) :
              /\ Fr(x).pre.lines[i].key = heap[done[1].cnt].tid
              /\ Fr(x).pre.lines[i].slave # Encode(heap, done[1].cnt)

\* replace has failed on an entity without a tracker.
C26_UntrackedWitness ==
    /\ done[1].kind = "replace" /\ ~done[1].ok
    /\ \E c \in Cols : trackers[c] # <<>>

\* ---------------------------------------------------------------------------
\* The program of a caller that adds entities with related entities, commits
\* and reads them back with their virtual field loaded, for list-shaped and
\* single-valued virtual fields.
\* ---------------------------------------------------------------------------
InitLoad == Init /\ schema.action = "delete_entity"

NextLoad ==
    \/ ops.scans = 0 /\ \E c \in Cols, n \in 0..MaxKids : Add(c, n)
    \/ ops.scans = 0 /\ \E t \in Tasks, c \in Cols : StartCommit(t, c)
    \/ \E t \in Tasks, c \in Cols : StartScanInclude(t, c)
    \/ \E t \in Tasks : Ensure(t)
    \/ \E t \in Tasks : Acquire(t)
    \/ \E t \in Tasks : Normalize(t)
    \/ \E t \in Tasks : WriteLine(t)
    \/ \E t \in Tasks : Finish(t)
    \/ \E t \in Tasks : ScanCopy(t)
    \/ \E t \in Tasks : ScanNext(t)
    \/ \E t \in Tasks : ScanIncluded(t)

SpecLoad == InitLoad /\ [][NextLoad]_vars

\* C27: load_virtual_props_async on an entity, as include() calls it for
\* every item read, does not fail and leaves in the entity's virtual field
\* the records of the related collection whose reference field holds the
\* entity's key, in the order of the related file: all of them for a
\* list-shaped field, the record itself for a single-valued one.
LoadCalled(t) ==
    /\ ScanNext(t) /\ Top(t).inc
    /\ Top(t).pos < Len(ScanSource(Top(t)))
    /\ Matches(Top(t), ScanSource(Top(t))[Top(t).pos + 1])

Related(c, k) ==
    SelectSeq(file[Virt(c).target].lines, LAMBDA l : l.slave.ref = k)

C27_LoadVirtualPopulates ==
    /\ [][\A t \in Tasks : LoadCalled(t) => stack'[t] # <<>>]_vars
    /\ [][\A t \in Tasks :
            ScanIncluded(t) /\ Sequential =>
                LET o == Top(t).rv
                    want == Related(Top(t).col, heap[o].tid)
                IN  /\ Len(heap'[o].kids) = Len(want)
                    /\ \A i \in 1..Len(want) :
                          /\ Encode(heap', heap'[o].kids[i]) = want[i].slave
                          /\ heap'[heap'[o].kids[i]].tid = want[i].key]_vars

\* include() on a collection whose virtual field is single-valued: the scan
\* has failed at the first item.
C27_SingleFails ==
    /\ Virt("A").shape = "single"
    /\ \E t \in Tasks : done[t].kind = "scan" /\ done[t].col = "A" /\ ~done[t].ok


\* ---------------------------------------------------------------------------
\* The program of a caller that adds entities, changes them, commits and
\* searches the collections with queries.
\* ---------------------------------------------------------------------------
NextFind ==
    \/ ops.scans = 0 /\ \E c \in Cols, n \in 0..MaxKids : Add(c, n)
    \/ ops.scans = 0 /\ \E o \in Objs, v \in Vals : Mutate(o, v)
    \/ ops.scans = 0 /\ \E t \in Tasks, c \in Cols : StartCommit(t, c)
    \/ \E t \in Tasks, c \in Cols, q \in Queries : StartFind(t, c, q)
    \/ \E t \in Tasks : Ensure(t)
    \/ \E t \in Tasks : Acquire(t)
    \/ \E t \in Tasks : Normalize(t)
    \/ \E t \in Tasks : WriteLine(t)
    \/ \E t \in Tasks : Finish(t)
    \/ \E t \in Tasks : ScanCopy(t)
    \/ \E t \in Tasks : ScanNext(t)

SpecFind == InitDeleteReference /\ [][NextFind]_vars

\* C28: find_all_async(query) with a query on one field yields, in the order
\* of the snapshot, exactly the records whose wire value of that field
\* satisfies the comparator, and a record that fails it is not decoded and
\* gets no tracker.
Compare(q, line) ==
    CASE q.op = "eq" -> line.slave[q.field] = q.value
      [] q.op = "ne" -> line.slave[q.field] # q.value
      [] q.op = "gt" -> line.slave[q.field] > q.value
      [] q.op = "lt" -> line.slave[q.field] < q.value
Satisfies(q, line) ==
    CASE q.op = "and" -> \A i \in 1..Len(q.subs) : Compare(q.subs[i], line)
      [] q.op = "or" -> \E i \in 1..Len(q.subs) : Compare(q.subs[i], line)
      [] OTHER -> Compare(q, line)
Finds == { x \in Scans : Fr(x).q # NoQuery /\ Fr(x).pc = "s_iter" }
Found(fr) ==
    SelectSeq(SubSeq(fr.snap.lines, 1, fr.pos), LAMBDA l : Satisfies(fr.q, l))

C28_FindYieldsMatches ==
    /\ [](\A x \in Finds : HasFieldName(Fr(x).q) => Fr(x).got = Found(Fr(x)))
    /\ [][\A t \in Tasks :
            /\ ScanNext(t) /\ Top(t).q # NoQuery
            /\ Top(t).pos < Len(Top(t).snap.lines)
            /\ ~Satisfies(Top(t).q, Top(t).snap.lines[Top(t).pos + 1])
            => heap' = heap /\ masters' = masters /\ trackers' = trackers]_vars

\* a find has read its whole snapshot, yielded one record and passed over
\* another
C28_Witness ==
    \E x \in Finds :
        /\ Fr(x).pos = Len(Fr(x).snap.lines)
        /\ Fr(x).pos >= 2
        /\ Len(Fr(x).got) = 1
        /\ Fr(x).q.field = "val"

\* C29: find_all_async accepts a query combined with & or |, and yields
\* exactly the records of the snapshot that satisfy both sub-queries (&) or
\* at least one (|), each sub-query tested on its own field.
C29_FindCombined ==
    /\ [][\A t \in Tasks, c \in Cols, q \in Queries :
            StartFind(t, c, q) /\ ~HasFieldName(q) => stack'[t] # <<>>]_vars
    /\ [](\A x \in Finds : ~HasFieldName(Fr(x).q) => Fr(x).got = Found(Fr(x)))

\* a find with a combined query has failed before it read anything; the
\* collection holds records
C29_CombinedRejected ==
    \E t \in Tasks :
        /\ done[t].kind = "scan" /\ ~done[t].ok
        /\ stack[t] = <<>>
        /\ file[done[t].col].lines # <<>>
        /\ \A c \in Cols : temps[c] = 0

\* ---------------------------------------------------------------------------
\* The program of a caller that adds entities, changes them, commits and
\* then works with queryable contexts.
\* ---------------------------------------------------------------------------
NextQuery ==
    \/ ops.scans = 0 /\ Add("B", 0)
    \/ ops.scans = 0 /\ \E o \in Objs, v \in Vals : Mutate(o, v)
    \/ ops.scans = 0 /\ \E t \in Tasks : StartCommit(t, "B")
    \/ \E t \in Tasks : StartQueryable(t, "B")
    \/ \E t \in Tasks, q \in Filters : Where(t, q)
    \/ \E t \in Tasks : ClearFilters(t)
    \/ \E t \in Tasks : Iterate(t)
    \/ \E t \in Tasks, q \in Filters \cup {NoQuery} : CountAsync(t, q)
    \/ \E t \in Tasks : QueryableNext(t)
    \/ \E t \in Tasks : ExitQueryable(t)
    \/ \E t \in Tasks : Ensure(t)
    \/ \E t \in Tasks : Acquire(t)
    \/ \E t \in Tasks : Normalize(t)
    \/ \E t \in Tasks : WriteLine(t)
    \/ \E t \in Tasks : Finish(t)
    \/ \E t \in Tasks : ScanCopy(t)

SpecQuery == InitDeleteReference /\ [][NextQuery]_vars

\* C30: on a queryable context the registered filters (those given to
\* where() or to a terminal operation since the last clear_filters()) apply
\* to iteration and to count_async: an iteration yields exactly the records
\* of the snapshot that satisfy every registered filter, in order, and
\* count_async counts exactly those.
Contexts == { x \in Scans : Fr(x).use = "ctx" /\ Fr(x).pc = "q_iter" }
Passing(fr) ==
    SelectSeq(SubSeq(fr.snap.lines, 1, fr.pos),
              LAMBDA l : \A i \in 1..Len(fr.filters) : Compare(fr.filters[i], l))

C30_FiltersApply ==
    \A x \in Contexts :
        /\ Fr(x).term = "iter" => Fr(x).got = Passing(Fr(x))
        /\ Fr(x).term = "count" => Fr(x).cnt = Len(Passing(Fr(x)))

\* an iteration after where() has yielded a record that fails the filter
C30_IterationUnfiltered ==
    \E x \in Contexts :
        /\ Fr(x).term = "iter" /\ Fr(x).filters # <<>>
        /\ Len(Fr(x).got) > Len(Passing(Fr(x)))

\* ---------------------------------------------------------------------------
\* serialize and deserialize as functions on values.
\*
\* A value is a tagged record: None, a scalar, a list, a JSON object (dict) or
\* a Python object of a declared entity type.  Scalar 0 stands for the falsy
\* scalars (0, False, ""), the other scalars are truthy.
\* ---------------------------------------------------------------------------
VNone == [k |-> "none"]
VErr == [k |-> "err"]
VS(n) == [k |-> "s", v |-> n]
VL(items) == [k |-> "l", items |-> items]
VD(f) == [k |-> "d", f |-> f]
VO(type, attrs) == [k |-> "o", type |-> type, attrs |-> attrs]

\* Python truthiness: "not data" holds for None, 0, False, "", [] and {}.
Falsy(x) ==
    CASE x.k = "none" -> TRUE
      [] x.k = "s" -> x.v = 0
      [] x.k = "l" -> x.items = <<>>
      [] x.k = "d" -> DOMAIN x.f = {}
      [] OTHER -> FALSE

\* The declared properties of the entity types, in the order of
\* inspect.getmembers (sorted by name).  "prim" is a type without properties.
Props(type) ==
    CASE type = "Inner" ->
           <<[name |-> "x", kind |-> "scalar", elem |-> "prim",
              required |-> TRUE, factory |-> "no"]>>
      [] type = "Outer" ->
           <<[name |-> "c", kind |-> "complex", elem |-> "Inner",
              required |-> FALSE, factory |-> "no"],
             [name |-> "l", kind |-> "list", elem |-> "prim",
              required |-> FALSE, factory |-> "list"],
             [name |-> "n", kind |-> "scalar", elem |-> "prim",
              required |-> FALSE, factory |-> "none"],
             [name |-> "s", kind |-> "scalar", elem |-> "prim",
              required |-> TRUE, factory |-> "no"]>>
      [] OTHER -> <<>>

\* prop.default_factory()
FactoryValue(p) == IF p.factory = "list" THEN VL(<<>>) ELSE VNone

\* TProperty.__get__: an attribute that is not in the object's __dict__ reads
\* as the default of the property, or as None when it has no default factory.
GetAttr(x, p) ==
    IF p.name \in DOMAIN x.attrs THEN x.attrs[p.name]
    ELSE IF p.factory # "no" THEN FactoryValue(p) ELSE VNone

\* hasattr(entity, attribute_name): the descriptor's __get__ never raises for
\* a declared property, so the attribute is always found.
HasAttr(x, p) == TRUE

RECURSIVE serialize(_)
serialize(x) ==
    CASE x.k = "none" -> VNone
      [] x.k = "l" ->
           LET items == [i \in 1..Len(x.items) |-> serialize(x.items[i])]
           IN  IF \E i \in 1..Len(items) : items[i] = VErr THEN VErr
               ELSE VL(items)
      [] x.k = "o" ->
           LET P == {Props(x.type)[i] : i \in 1..Len(Props(x.type))}
               Out(p) ==
                   LET value == GetAttr(x, p)
                   IN  IF p.kind = "list"
                       THEN IF value.k = "l" THEN serialize(value) ELSE VErr
                       ELSE IF p.kind = "complex" THEN serialize(value)
                       ELSE value
               found == {p \in P : HasAttr(x, p)}
               fails == \E p \in P :
                          \/ ~HasAttr(x, p) /\ p.required
                          \/ HasAttr(x, p) /\ Out(p) = VErr
               names == {p.name : p \in {q \in P : HasAttr(x, q) \/ q.factory # "no"}}
               PropOf(n) == CHOOSE p \in P : p.name = n
           IN  IF fails THEN VErr
               ELSE IF found = {} THEN x
               ELSE VD([n \in names |->
                          IF HasAttr(x, PropOf(n)) THEN Out(PropOf(n))
                          ELSE FactoryValue(PropOf(n))])
      [] OTHER -> x

RECURSIVE deserialize(_, _)
deserialize(type, data) ==
    IF data = VErr THEN VErr
    ELSE IF Falsy(data) THEN VNone   \* if not data: return None
    ELSE LET P == {Props(type)[i] : i \in 1..Len(Props(type))}
             In(n) == IF data.k = "d" THEN n \in DOMAIN data.f
                      ELSE IF data.k = "l"
                           THEN \E i \in 1..Len(data.items) :
                                   data.items[i] = VS(n)
                           ELSE FALSE
             Val(p) ==
                 LET d == data.f[p.name]
                 IN  IF p.kind = "list"
                     THEN IF d.k = "l"
                          THEN LET items == [i \in 1..Len(d.items) |->
                                               deserialize(p.elem, d.items[i])]
                               IN  IF \E i \in 1..Len(items) : items[i] = VErr
                                   THEN VErr ELSE VL(items)
                          ELSE VErr
                     ELSE IF p.kind = "complex" THEN deserialize(p.elem, d)
                     ELSE d
             found == {p \in P : In(p.name)}
             fails == \E p \in P :
                        \/ ~In(p.name) /\ p.required
                        \/ In(p.name) /\ (data.k # "d" \/ Val(p) = VErr)
             names == {p.name : p \in {q \in P : In(q.name) \/ q.factory # "no"}}
             PropOf(n) == CHOOSE p \in P : p.name = n
         IN  IF fails THEN VErr
             ELSE IF found = {}
                  THEN IF data.k = "l"
                       THEN LET items == [i \in 1..Len(data.items) |->
                                            deserialize(type, data.items[i])]
                            IN  IF \E i \in 1..Len(items) : items[i] = VErr
                                THEN VErr ELSE VL(items)
                       ELSE data
             ELSE VO(type, [n \in names |->
                              IF In(n) THEN Val(PropOf(n))
                              ELSE FactoryValue(PropOf(n))])

\* The entities the functions are applied to: every attribute is absent or
\* holds one of a few values, among them the falsy ones.
Entities ==
    LET absent == [k |-> "absent"]
        Attrs(r, names) == [n \in {m \in names : r[m] # absent} |-> r[n]]
        inners == {VO("Inner", Attrs(r, {"x"})) :
                     r \in [x : {absent} \cup {VS(v) : v \in 0..1}]}
    IN  {VO("Outer", Attrs(r, {"c", "l", "n", "s"})) :
           r \in [c : {absent, VNone} \cup inners,
                  l : {absent, VL(<<>>), VL(<<VS(0)>>), VL(<<VS(1)>>),
                       VL(<<VS(1), VS(0)>>), VL(<<VNone>>)},
                  n : {absent, VNone, VS(1)},
                  s : {absent} \cup {VS(v) : v \in 0..1}]}

\* The wire trees deserialize is applied to, the empty one among them.
Trees ==
    LET absent == [k |-> "absent"]
        Attrs(r, names) == [n \in {m \in names : r[m] # absent} |-> r[n]]
    IN  {VD(Attrs(r, {"c", "l", "n", "s"})) :
           r \in [c : {absent, VNone, VD(<<>>), VD([x \in {"x"} |-> VS(1)])},
                  l : {absent, VL(<<>>), VL(<<VS(0)>>), VL(<<VS(1)>>)},
                  n : {absent, VS(1)},
                  s : {absent} \cup {VS(v) : v \in 0..1}]}

InitCodec ==
    /\ schema \in Schemas /\ schema.action = "ignore"
    /\ HasRefersTo(schema.virt["A"])
    /\ InitMemory
    /\ codec \in {[phase |-> "entity", src |-> "entity", ent |-> e,
                   tree |-> VNone, back |-> VNone, again |-> VNone] :
                     e \in Entities}
            \cup {[phase |-> "tree", src |-> "tree", ent |-> VNone,
                   tree |-> t, back |-> VNone, again |-> VNone] :
                     t \in Trees}

\* tree = serialize(entity)
ApplySerialize ==
    /\ codec.phase = "entity"
    /\ codec' = [codec EXCEPT !.phase = "tree", !.tree = serialize(codec.ent)]
    /\ UNCHANGED <<schema, heap, masters, trackers, file, tmpf, lock, nextKey,
                   stack, done, alive, crash, running, ops, temps, closing,
                   mainCtx, ctxs>>

\* back = deserialize(Outer, tree)
ApplyDeserialize ==
    /\ codec.phase = "tree"
    /\ codec' = [codec EXCEPT !.phase = "back",
                              !.back = deserialize("Outer", codec.tree)]
    /\ UNCHANGED <<schema, heap, masters, trackers, file, tmpf, lock, nextKey,
                   stack, done, alive, crash, running, ops, temps, closing,
                   mainCtx, ctxs>>

\* again = serialize(back)
ApplyReserialize ==
    /\ codec.phase = "back"
    /\ codec' = [codec EXCEPT !.phase = "again",
                              !.again = serialize(codec.back)]
    /\ UNCHANGED <<schema, heap, masters, trackers, file, tmpf, lock, nextKey,
                   stack, done, alive, crash, running, ops, temps, closing,
                   mainCtx, ctxs>>

NextCodec == ApplySerialize \/ ApplyDeserialize \/ ApplyReserialize

SpecCodec == InitCodec /\ [][NextCodec]_vars

\* ---------------------------------------------------------------------------
\* C24: round trip.  For every entity whose type has at least one field and
\* that serialize accepts, serializing the entity, deserializing the tree to
\* the entity's type and serializing the result again gives the tree of the
\* first serialization.
\* ---------------------------------------------------------------------------
RoundTripped ==
    /\ codec.phase = "again" /\ codec.src = "entity"
    /\ Props(codec.ent.type) # <<>>
    /\ codec.tree # VErr

C24_RoundTrip == RoundTripped => codec.again = codec.tree

\* The round trip of an entity with a falsy element in a list field ends with
\* another tree.
C24_FalsyElementLost ==
    /\ RoundTripped
    /\ codec.again # codec.tree
    /\ "l" \in DOMAIN codec.ent.attrs
    /\ \E i \in 1..Len(codec.ent.attrs["l"].items) :
          codec.ent.attrs["l"].items[i] = VS(0)

\* ---------------------------------------------------------------------------
\* C25: a required field is never silently defaulted.  serialize fails when
\* the attribute of a required field is absent on the entity, deserialize
\* fails when the wire name of a required field is missing from the tree (the
\* empty tree included), and a result that deserialize does return holds
\* defaults only for optional fields.
\* ---------------------------------------------------------------------------
RequiredNames(type) ==
    {Props(type)[i].name :
        i \in {j \in 1..Len(Props(type)) : Props(type)[j].required}}

Serialized == codec.src = "entity" /\ codec.phase # "entity"
Deserialized == codec.src = "tree" /\ codec.phase \in {"back", "again"}

C25_RequiredNeverDefaulted ==
    /\ Serialized /\ ~(RequiredNames("Outer") \subseteq DOMAIN codec.ent.attrs)
          => codec.tree = VErr
    /\ Deserialized /\ ~(RequiredNames("Outer") \subseteq DOMAIN codec.tree.f)
          => codec.back = VErr
    /\ Deserialized /\ codec.back.k = "o"
          => \A n \in DOMAIN codec.back.attrs \ DOMAIN codec.tree.f :
                n \notin RequiredNames("Outer")

\* deserialize has returned None for the empty tree, and serialize has
\* returned a tree for an entity without its required attribute.
C25_EmptyTreeIsNone ==
    /\ Deserialized
    /\ DOMAIN codec.tree.f = {}
    /\ codec.back = VNone

\* ---------------------------------------------------------------------------
\* C31: children become durable first.  Whenever a commit writes the line of
\* a created or modified parent whose list-valued virtual field held values,
\* the nested commit of the related collection has returned and every one of
\* those values is already a record of the related collection's file.
\* ---------------------------------------------------------------------------
WritesParent(t) ==
    /\ WriteLine(t)
    /\ Virt(Top(t).col).shape = "list"
    /\ Top(t).vals # <<>>

CascadeSteps == {"casc_scan", "casc_commit", "casc_sub"}
Cascading == {x \in Commits : Fr(x).pc \in CascadeSteps}
CascadedKey(x) == Fr(x).part.deleted[Fr(x).j].key

C32_CascadeAfterSwap ==
    \A x \in Cascading :
        /\ file[Fr(x).col] # Missing
        /\ CascadedKey(x) \notin KeysOf(file[Fr(x).col].lines)
        /\ tmpf[Fr(x).col] = Missing

\* The related collection is being committed by the cascade of a parent
\* whose line was in the file when the commit started.
C32_Witness ==
    \E x \in Cascading :
        /\ Fr(x).pc = "casc_sub"
        /\ CascadedKey(x) \in KeysOf(Fr(x).pre.lines)
        /\ CascadedKey(x) \notin KeysOf(file[Fr(x).col].lines)

\* ---------------------------------------------------------------------------
\* A caller that adds one parent with several related entities, commits,
\* reads the parent back with include(), changes an entity and commits.
\* ---------------------------------------------------------------------------
MaxSeveral == 2

NextSeveral ==
    \/ ops.adds = 0 /\ Add("A", MaxSeveral)
    \/ \E o \in Objs, v \in Vals : ops.scans > 0 /\ Mutate(o, v)
    \/ \E t \in Tasks : StartCommit(t, "A")
    \/ \E t \in Tasks : ops.commits > 0 /\ StartScanInclude(t, "A")
    \/ \E t \in Tasks : Ensure(t)
    \/ \E t \in Tasks : Acquire(t)
    \/ \E t \in Tasks : Normalize(t)
    \/ \E t \in Tasks : NormFirstRet(t)
    \/ \E t \in Tasks : WriteLine(t)
    \/ \E t \in Tasks : RewriteOpen(t)
    \/ \E t \in Tasks : RewriteLine(t)
    \/ \E t \in Tasks : SwapRemove(t)
    \/ \E t \in Tasks : SwapRename(t)
    \/ \E t \in Tasks : Cascade(t)
    \/ \E t \in Tasks : Finish(t)
    \/ \E t \in Tasks : ScanCopy(t)
    \/ \E t \in Tasks : ScanNext(t)
    \/ \E t \in Tasks : ScanIncluded(t)
    \/ \E c \in Cols : Finalize(c)

SpecSeveral == InitDeleteReference /\ [][NextSeveral]_vars

\* C33: one record per child.  When a sequential commit of a parent whose
\* list-valued virtual field held several children that were records of the
\* related collection has rewritten the parent's line, the related
\* collection holds, for each of those children, exactly one line under the
\* key the child was loaded with, carrying the child's content and the
\* parent's key as reference.
OwnKey(o) ==
    masters[CHOOSE m \in 1..Len(masters) :
                /\ masters[m].slave = o
                /\ \A n \in 1..Len(masters) : masters[n].slave = o => m <= n].id
SeveralPersisted(x, n) ==
    /\ Len(Fr(x).normed[n].vals) > 1
    /\ \A i \in 1..Len(Fr(x).normed[n].vals) :
          OwnKey(Fr(x).normed[n].vals[i]) \in KeysOf(Fr(x).rel.lines)
C33_Case(x) ==
    /\ x[2] = 1 /\ Fr(x).pc = "fin" /\ Fr(x).col = "A"
    /\ Sequential
OneRecordOf(o, parent) ==
    LET ls == file["B"].lines
    IN  /\ Cardinality({j \in 1..Len(ls) : ls[j].key = OwnKey(o)}) = 1
        /\ [key |-> OwnKey(o), slave |-> Encode(heap, o)] \in Lines(file["B"])
        /\ heap[o].ref = parent
C33_OneRecordPerChild ==
    \A x \in Commits :
        C33_Case(x) =>
            \A n \in 1..Len(Fr(x).normed) :
                SeveralPersisted(x, n) =>
                    \A i \in 1..Len(Fr(x).normed[n].vals) :
                        OneRecordOf(Fr(x).normed[n].vals[i],
                                    masters[Fr(x).normed[n].master].id)

\* The commit of the parent has come to its end and the content of one of
\* its persisted children is not in the related collection.
C33_ChildContentLost ==
    \E x \in Commits :
        /\ C33_Case(x)
        /\ \E n \in 1..Len(Fr(x).normed) :
              /\ SeveralPersisted(x, n)
              /\ \E i \in 1..Len(Fr(x).normed[n].vals) :
                    \A l \in Lines(file["B"]) :
                        l.slave # Encode(heap, Fr(x).normed[n].vals[i])

\* ---------------------------------------------------------------------------
\* C34: no rewrite file outlives its commit.  In a running process the
\* rewrite file of a collection exists only while a commit is inside the
\* critical section of that collection: once the commit has ended, by the
\* swap, without a changed line, or by a failure, the file is gone.
\* ---------------------------------------------------------------------------
C34_NoRewriteFileLeft ==
    \A c \in Cols : alive /\ ~InCritical(c) => tmpf[c] = Missing

\* A commit has ended with an exception, nobody is committing its
\* collection, and the rewrite file it opened is still on the disk.
C34_LeftBehind ==
    \E t \in Tasks :
        /\ alive /\ stack[t] = <<>>
        /\ done[t].kind = "commit" /\ ~done[t].ok
        /\ ~InCritical(done[t].col)
        /\ tmpf[done[t].col].there

\* ---------------------------------------------------------------------------
\* C35: no snapshot of an intermediate state.  The copy step of a scan is
\* taken only while no commit is inside the critical section of the scanned
\* collection, and the snapshot is the live file of that moment: the file
\* as a commit found it or as a commit left it, never the file between a
\* commit's appended lines and its swap.
\* ---------------------------------------------------------------------------
Copies(t) == ScanCopy(t) /\ stack'[t] # <<>>

ToDelete(trs) == { tr.key : tr \in { x \in Range(trs) : x.mode = "delete" } }
ToUpdate(trs, h, ms) ==
    { tr.key : tr \in { x \in Range(trs) : x.mode = "update" /\ Modified(h, ms, x) } }
UserRead(t) == ScanNext(t) /\ Top(t).use = "user"

C36_ReadsKeepPending ==
    [][\A t \in Tasks :
          UserRead(t) =>
              \A c \in Cols :
                  /\ ToDelete(trackers[c]) \subseteq ToDelete(trackers'[c])
                  /\ ToUpdate(trackers[c], heap, masters)
                        \subseteq ToUpdate(trackers'[c], heap', masters')]_vars

\* An entity the caller has changed carries the key of a tracker that no
\* longer tracks it: the record was loaded again and the tracker filed
\* under the key follows the new copy, which is unchanged.
C36_ChangeForgotten ==
    \E c \in Cols : \E o \in 1..Len(heap) :
        /\ heap[o].type = c /\ heap[o].tid # None
        /\ heap[o].tid \in KeysOf(trackers[c])
        /\ LET tr == TrackerOf(trackers[c], heap[o].tid)
           IN  /\ masters[tr.master].slave # o
               /\ tr.mode = "update"
               /\ ~Modified(heap, masters, tr)
               /\ Encode(heap, o) # tr.init
        /\ \A t \in Tasks : stack[t] = <<>>

\* ---------------------------------------------------------------------------
\* C37: a lazy load does not make an entity dirty.  The step that puts the
\* related entities into a loaded entity's virtual field leaves an entity
\* that reported modified() false reporting false, so that a commit of a
\* caller who has mutated nothing finds no record to update.
\* ---------------------------------------------------------------------------
Included(t) == ScanIncluded(t) /\ HasTracker(trackers[Top(t).col], heap, Top(t).rv)

C37_LoadKeepsClean ==
    /\ [][\A t \in Tasks :
            Included(t) =>
                LET c == Top(t).col
                    k == heap[Top(t).rv].tid
                IN  ~Modified(heap, masters, TrackerOf(trackers[c], k))
                        => ~Modified(heap', masters', TrackerOf(trackers'[c], k))]_vars
    /\ [](Untouched /\ ops.deletes = 0 =>
            \A x \in Commits : Fr(x).part.updated = <<>>)

\* A caller who only added, committed and iterated with include() commits
\* again: the commit has rewritten the line of the loaded entity and counts
\* it.
C37_LoadedIsRewritten ==
    \E x \in Commits :
        /\ Untouched /\ ops.deletes = 0 /\ Sequential
        /\ x[2] = 1 /\ Fr(x).pc = "fin" /\ Fr(x).col = "A"
        /\ Fr(x).part.updated # <<>>
        /\ Fr(x).modified /\ Fr(x).cnt > 0

\* ---------------------------------------------------------------------------
\* C38: a commit of A touches B only for A's sake.  When a sequential commit
\* of A comes to its end, every line of B's file that is neither the record
\* of a value normalized from a virtual field of A nor a record that
\* referred to a parent this commit deleted is a line B's file had when the
\* commit began, and every such line of then is still there.
\* ---------------------------------------------------------------------------
NormalizedKeys(fr) ==
    { masters[m].id : m \in { n \in 1..Len(masters) :
        \E e \in 1..Len(fr.normed) : masters[n].slave \in Range(fr.normed[e].vals) } }
CascadedKeys(fr) ==
    { l.key : l \in { r \in Lines(fr.rel) : r.slave.ref \in KeysOf(fr.part.deleted) } }
OnBehalf(fr) == NormalizedKeys(fr) \cup CascadedKeys(fr)
C38_Case(x) ==
    /\ x[2] = 1 /\ Fr(x).pc = "fin" /\ Fr(x).col = "A"
    /\ IsVirtual(Virt("A")) /\ Virt("A").target = "B"
    /\ Sequential

C38_RelatedPendingStays ==
    \A x \in Commits :
        C38_Case(x) =>
            /\ \A l \in Lines(file["B"]) : l.key \notin OnBehalf(Fr(x)) => l \in Lines(Fr(x).rel)
            /\ \A l \in Lines(Fr(x).rel) : l.key \notin OnBehalf(Fr(x)) => l \in Lines(file["B"])

\* The commit of A has written to B's file an entity that the caller had
\* added to B and not committed, and that no virtual field of A held.
C38_PendingWritten ==
    \E x \in Commits :
        /\ C38_Case(x)
        /\ \E l \in Lines(file["B"]) :
              /\ l.key \notin OnBehalf(Fr(x))
              /\ l.key \notin KeysOf(Fr(x).rel.lines)
              /\ l.key \notin KeysOf(trackers["B"])

\* ---------------------------------------------------------------------------
\* C39: concurrent counts do not interfere.  A count_async call that runs
\* to its end (it is not cancelled) ends without an exception, returns the
\* number of lines of the snapshot it copied, has removed its own snapshot,
\* and has closed or removed no snapshot of another call.
\* ---------------------------------------------------------------------------
\* The callers that add and commit and then count, none of them cancelled.
NextCounts ==
    \/ \E c \in Cols, n \in 0..MaxKids : ops.counts = 0 /\ Add(c, n)
    \/ \E t \in Tasks, c \in Cols : ops.counts = 0 /\ StartCommit(t, c)
    \/ \E t \in Tasks, c \in Cols : StartCount(t, c)
    \/ \E t \in Tasks : Ensure(t)
    \/ \E t \in Tasks : Acquire(t)
    \/ \E t \in Tasks : Normalize(t)
    \/ \E t \in Tasks : WriteLine(t)
    \/ \E t \in Tasks : Finish(t)
    \/ \E t \in Tasks : CountEnsure(t)
    \/ \E t \in Tasks : CountOpen(t)
    \/ \E t \in Tasks : CountNext(t)
    \/ \E t \in Tasks : CountClose(t)
SpecCounts == InitDeleteReference /\ [][NextCounts]_vars

CountEnds(t) ==
    /\ stack[t] # <<>> /\ stack[t][1].kind = "count" /\ stack'[t] = <<>>

C39_CountsIndependent ==
    [][\A t \in Tasks :
          CountEnds(t) =>
              /\ done'[t].ok
              /\ done'[t].cnt = Len(Top(t).snap.lines)
              /\ ctxs'[Top(t).i].removed
              /\ \A u \in 1..Len(ctxs) :
                    u # Top(t).i =>
                        /\ ctxs'[u].removed = ctxs[u].removed
                        /\ ctxs'[u].closed = ctxs[u].closed]_vars

\* A count_async call is still reading, or about to open, a snapshot that
\* the exit of another call has removed.
C39_ForeignSnapshotRemoved ==
    \E x \in Frames :
        /\ Fr(x).kind = "count"
        /\ Fr(x).pc \in {"c_open", "c_iter"}
        /\ ctxs[Fr(x).i].removed

\* ---------------------------------------------------------------------------
\* C40: added, deleted, never written.  A commit whose change set deletes a
\* key that has no line in the live file (the entity was added and deleted
\* before any commit) writes no line with that key at any of its steps, and
\* when it returns the key is out of the tracker table and every line that
\* the commit did not delete or update is still in the file.
\* ---------------------------------------------------------------------------
NeverWritten(fr) == KeysOf(fr.part.deleted) \ KeysOf(fr.pre.lines)
Changed(fr) == KeysOf(fr.part.deleted) \cup KeysOf(fr.part.updated)

C40_AddedDeletedNeverWritten ==
    /\ [](alive => \A x \in Commits :
            Fr(x).holds =>
                \A k \in NeverWritten(Fr(x)) :
                    /\ k \notin KeysOf(file[Fr(x).col].lines)
                    /\ k \notin KeysOf(tmpf[Fr(x).col].lines))
    /\ [][\A t \in Tasks :
            Finish(t) /\ Succeeds(t) /\ NeverWritten(Top(t)) # {} =>
                /\ \A k \in NeverWritten(Top(t)) :
                      /\ k \notin KeysOf(file'[Top(t).col].lines)
                      /\ k \notin KeysOf(trackers'[Top(t).col])
                /\ \A l \in Lines(Top(t).pre) :
                      l.key \notin Changed(Top(t)) => l \in Lines(file'[Top(t).col])]_vars

\* A commit is at its end whose only change was the delete of an entity that
\* was never written: the file has the record it had, and nothing else.
C40_Witness ==
    \E x \in Commits :
        /\ Fr(x).pc = "fin" /\ x[2] = 1
        /\ NeverWritten(Fr(x)) # {}
        /\ Fr(x).part.created = <<>> /\ Fr(x).part.updated = <<>>
        /\ Fr(x).pre.lines # <<>>
        /\ file[Fr(x).col] = Fr(x).pre
        /\ tmpf[Fr(x).col].there

=============================================================================
